---- MODULE Spec2Model ----
(***************************************************************************)
(* Model of the ADF -> Fabric pipeline-definition converter of             *)
(* src/adf_fabric_migrator/simulate_migration.py: the recursive tree       *)
(* walker convert_activity_list, the per-type activity converters, the     *)
(* process-wide SummaryCollector / Logger, and process_pipeline; of the    *)
(* polling loop of src/adf_fabric_migrator/runfabpiline.py; and of         *)
(* load_table and load_tables_parallel of src/scripts/load_data.py.        *)
(*                                                                         *)
(* JSON values are tagged records, so that the code's shape tests          *)
(* (isinstance(x, list), isinstance(x, dict), `x or {}`) are decided by    *)
(* the model the way Python decides them:                                  *)
(*   [k |-> "obj",  v |-> record]      a dict                              *)
(*   [k |-> "list", v |-> sequence]    a list                              *)
(*   [k |-> "str",  v |-> string]      [k |-> "int",  v |-> n]             *)
(*   [k |-> "bool", v |-> b]           [k |-> "null"]  (None)              *)
(* A dependsOn list additionally carries id, the identity of the Python    *)
(* list object, so that sharing and copying can be told apart; so do the   *)
(* dicts and lists of the tracked documents.                               *)
(***************************************************************************)
EXTENDS Integers, Sequences, FiniteSets, TLC

VARIABLES
  source,    \* the parsed document handed to the current process_pipeline call
  walkIn,    \* props["activities"] as handed to the walker (the deep copy)
  target,    \* the document process_pipeline returned, JNull before / on raise
  SUMMARY,   \* the module-level SummaryCollector (line 497)
  LOGGER,    \* the sections the module-level Logger was asked to write
  calls,     \* convert_activity_list invocations of the current call
  callNo,    \* number of process_pipeline calls made in this process
  pc,        \* "idle" | "returned" | "raised" | "mutated_out" | "mutated_in"
  call,      \* the last call as it was made: [fn, its arguments, ret],
             \* [fn |-> "none"] when there was none
  poll,      \* the poll_pipeline_status call in progress: its arguments, its
             \* locals waited, delay and last, and its position
  load       \* the DataLoader at work: its configuration, the load_table
             \* calls in progress and the thread that runs each

vars == <<source, walkIn, target, SUMMARY, LOGGER, calls, callNo, pc, call, poll, load>>

-----------------------------------------------------------------------------
(* Bounds of the model *)

\* process_pipeline calls made in one process
MaxCalls == 2
\* nesting depth of the generated activity trees below the top-level list
MaxDepth == 2

-----------------------------------------------------------------------------
(* JSON values *)

JNull == [k |-> "null"]
Str(s) == [k |-> "str", v |-> s]
Int_(n) == [k |-> "int", v |-> n]
Bool(b) == [k |-> "bool", v |-> b]
Obj(r) == [k |-> "obj", v |-> r]
List(s) == [k |-> "list", v |-> s]
EmptyObj == [k |-> "obj", v |-> <<>>]

IsDict(j) == j.k = "obj"
IsList(j) == j.k = "list"
IsStr(j) == j.k = "str"

\* Python truthiness, as used by `x or {}` and `not x`
Truthy(j) ==
  CASE j.k = "null" -> FALSE
    [] j.k = "bool" -> j.v
    [] j.k = "int" -> j.v # 0
    [] j.k = "str" -> j.v # ""
    [] j.k = "list" -> Len(j.v) > 0
    [] j.k = "obj" -> DOMAIN j.v # {}

\* `key in d` and d.get(key, default) for a dict d
Has(d, key) == key \in DOMAIN d.v
Get(d, key, default) == IF key \in DOMAIN d.v THEN d.v[key] ELSE default

\* d[key] = val on a dict, and `del d[key]`
Put(d, key, val) ==
  [d EXCEPT !.v = [x \in DOMAIN d.v \cup {key} |-> IF x = key THEN val ELSE d.v[x]]]
Del(d, key) ==
  [d EXCEPT !.v = [x \in DOMAIN d.v \ {key} |-> d.v[x]]]

\* f"{x}" for the values the walker formats into paths
Fmt(j) ==
  CASE j.k = "null" -> "None"
    [] j.k = "str" -> j.v
    [] j.k = "int" -> ToString(j.v)
    [] j.k = "bool" -> IF j.v THEN "True" ELSE "False"
    [] OTHER -> "<object>"

-----------------------------------------------------------------------------
(* deepcopy and object identity *)

\* identity of the default `[]` literal a .get("dependsOn", []) evaluates to
FreshListId == <<0>>

RECURSIVE Relabel(_, _)
\* deepcopy(j) performed as copy number c: the same value, in which every
\* object that carries an identity is a new object
Relabel(j, c) ==
  CASE j.k = "obj" ->
         LET fields == [x \in DOMAIN j.v |-> Relabel(j.v[x], c)]
         IN IF "id" \in DOMAIN j
              THEN [id |-> <<c>> \o j.id, k |-> "obj", v |-> fields]
              ELSE [k |-> "obj", v |-> fields]
    [] j.k = "list" ->
         LET items == [i \in 1..Len(j.v) |-> Relabel(j.v[i], c)]
         IN IF "id" \in DOMAIN j
              THEN [id |-> <<c>> \o j.id, k |-> "list", v |-> items]
              ELSE [k |-> "list", v |-> items]
    [] OTHER -> j

\* a mutant of deepcopy: the object itself is handed back
deepcopy_SameObject(j, c) == j

deepcopy(j, c) == Relabel(j, c)

RECURSIVE Val(_)
\* the value of j alone (what == compares in Python): identities dropped
Val(j) ==
  CASE j.k = "obj" -> [k |-> "obj", v |-> [x \in DOMAIN j.v |-> Val(j.v[x])]]
    [] j.k = "list" -> [k |-> "list", v |-> [i \in 1..Len(j.v) |-> Val(j.v[i])]]
    [] OTHER -> j

RECURSIVE Ids(_)
\* the identities of all tracked objects inside j
Ids(j) ==
  (IF "id" \in DOMAIN j THEN {j.id} ELSE {})
    \cup CASE j.k = "obj" -> UNION {Ids(j.v[x]) : x \in DOMAIN j.v}
           [] j.k = "list" -> UNION {Ids(j.v[i]) : i \in 1..Len(j.v)}
           [] OTHER -> {}

RECURSIVE Objects(_)
\* the tracked objects inside j, each as it stands
Objects(j) ==
  (IF "id" \in DOMAIN j THEN {j} ELSE {})
    \cup CASE j.k = "obj" -> UNION {Objects(j.v[x]) : x \in DOMAIN j.v}
           [] j.k = "list" -> UNION {Objects(j.v[i]) : i \in 1..Len(j.v)}
           [] OTHER -> {}

RECURSIVE Sync(_, _)
\* j as seen once the objects objs stand as given: a tracked object of j that
\* is one of objs is that object, whatever was written to it in place
Sync(j, objs) ==
  IF "id" \in DOMAIN j /\ \E o \in objs : o.id = j.id
    THEN CHOOSE o \in objs : o.id = j.id
  ELSE CASE j.k = "obj" ->
              [j EXCEPT !.v = [x \in DOMAIN j.v |-> Sync(j.v[x], objs)]]
         [] j.k = "list" ->
              [j EXCEPT !.v = [i \in 1..Len(j.v) |-> Sync(j.v[i], objs)]]
         [] OTHER -> j

-----------------------------------------------------------------------------
(* Text: the str methods the converters use, computed character by        *)
(* character.                                                              *)

\* the characters str.strip() removes, as far as the model's strings hold them
Whitespace == {" ", "\t", "\n"}

RECURSIVE lstrip(_)
lstrip(s) ==
  IF Len(s) > 0 /\ SubSeq(s, 1, 1) \in Whitespace THEN lstrip(SubSeq(s, 2, Len(s))) ELSE s

RECURSIVE rstrip(_)
rstrip(s) ==
  IF Len(s) > 0 /\ SubSeq(s, Len(s), Len(s)) \in Whitespace
    THEN rstrip(SubSeq(s, 1, Len(s) - 1)) ELSE s

\* str.strip()
strip(s) == rstrip(lstrip(s))

\* s.startswith(prefix)
startswith(s, prefix) == Len(s) >= Len(prefix) /\ SubSeq(s, 1, Len(prefix)) = prefix

\* s.strip().startswith(("@", "="))
StartsExpression(s) == startswith(strip(s), "@") \/ startswith(strip(s), "=")

\* `a in b` for two strings
InStr(a, b) == \E i \in 0..(Len(b) - Len(a)) : SubSeq(b, i + 1, i + Len(a)) = a

UpperToLower ==
  [A |-> "a", B |-> "b", C |-> "c", D |-> "d", E |-> "e", F |-> "f", G |-> "g",
   H |-> "h", I |-> "i", J |-> "j", K |-> "k", L |-> "l", M |-> "m", N |-> "n",
   O |-> "o", P |-> "p", Q |-> "q", R |-> "r", S |-> "s", T |-> "t", U |-> "u",
   V |-> "v", W |-> "w", X |-> "x", Y |-> "y", Z |-> "z"]

RECURSIVE lower(_)
\* str.lower()
lower(s) ==
  IF Len(s) = 0 THEN ""
  ELSE (IF SubSeq(s, 1, 1) \in DOMAIN UpperToLower
          THEN UpperToLower[SubSeq(s, 1, 1)] ELSE SubSeq(s, 1, 1))
         \o lower(SubSeq(s, 2, Len(s)))

RECURSIVE upper(_)
\* str.upper()
upper(s) ==
  IF Len(s) = 0 THEN ""
  ELSE (IF \E c \in DOMAIN UpperToLower : UpperToLower[c] = SubSeq(s, 1, 1)
          THEN CHOOSE c \in DOMAIN UpperToLower : UpperToLower[c] = SubSeq(s, 1, 1)
          ELSE SubSeq(s, 1, 1))
         \o upper(SubSeq(s, 2, Len(s)))

RECURSIVE replace(_, _, _)
\* str.replace(old, new), old not empty
replace(s, old, new) ==
  IF Len(s) < Len(old) THEN s
  ELSE IF SubSeq(s, 1, Len(old)) = old
    THEN new \o replace(SubSeq(s, Len(old) + 1, Len(s)), old, new)
  ELSE SubSeq(s, 1, 1) \o replace(SubSeq(s, 2, Len(s)), old, new)

-----------------------------------------------------------------------------
(* Type mapping tables *)

ADF_TO_FABRIC_ACTIVITY_TYPE ==
  [Copy |-> "Copy", Lookup |-> "Lookup", GetMetadata |-> "GetMetadata",
   Delete |-> "Delete", Script |-> "Script",
   SqlServerStoredProcedure |-> "SqlServerStoredProcedure",
   ExecutePipeline |-> "InvokePipeline", InvokePipeline |-> "InvokePipeline",
   DatabricksNotebook |-> "TridentNotebook", SynapseNotebook |-> "TridentNotebook",
   Custom |-> "Custom", ForEach |-> "ForEach", IfCondition |-> "IfCondition",
   Switch |-> "Switch", Until |-> "Until", Wait |-> "Wait",
   SetVariable |-> "SetVariable", AppendVariable |-> "AppendVariable",
   Filter |-> "Filter", Validation |-> "Validation", WebActivity |-> "WebActivity",
   WebHook |-> "WebHook", Fail |-> "Fail",
   HDInsightHive |-> "AzureHDInsight", HDInsightPig |-> "AzureHDInsight",
   HDInsightMapReduce |-> "AzureHDInsight", HDInsightSpark |-> "AzureHDInsight",
   HDInsightStreaming |-> "AzureHDInsight",
   DatabricksSparkJar |-> "DatabricksSparkJar",
   DatabricksSparkPython |-> "DatabricksSparkPython",
   AzureMLBatchExecution |-> "AzureMLBatchExecution",
   AzureMLUpdateResource |-> "AzureMLUpdateResource",
   AzureMLExecutePipeline |-> "AzureMLExecutePipeline"]

\* ConnectorMapping.map_activity_type: falsy -> 'Unknown', else table.get(t, t)
map_activity_type(adf_type) ==
  IF ~Truthy(adf_type) THEN Str("Unknown")
  ELSE IF adf_type.v \in DOMAIN ADF_TO_FABRIC_ACTIVITY_TYPE
         THEN Str(ADF_TO_FABRIC_ACTIVITY_TYPE[adf_type.v])
         ELSE adf_type

\* ADF_TO_FABRIC_CONNECTOR_TYPE, as <<key, value>> in the dict's order
ADF_TO_FABRIC_CONNECTOR_TYPE ==
  << <<"AzureSqlDatabase", "AzureSqlDatabase">>, <<"SqlServer", "SqlServer">>,
     <<"AzureSqlDW", "AzureSynapseAnalytics">>,
     <<"AzureSynapseAnalytics", "AzureSynapseAnalytics">>,
     <<"AzureBlobStorage", "AzureBlobStorage">>, <<"AzureBlobFS", "AzureBlobFS">>,
     <<"AzureDataLakeStore", "AzureDataLakeStoreGen1">>,
     <<"AzureDataLakeStoreGen2", "AzureBlobFS">>, <<"CosmosDb", "AzureCosmosDb">>,
     <<"MongoDb", "MongoDB">>, <<"MongoDbV2", "MongoDB">>, <<"Snowflake", "Snowflake">>,
     <<"AmazonRedshift", "AmazonRedshift">>, <<"GoogleBigQuery", "GoogleBigQuery">>,
     <<"Oracle", "Oracle">>, <<"OracleServiceCloud", "OracleServiceCloud">>,
     <<"MySql", "MySql">>, <<"PostgreSql", "PostgreSql">>, <<"Db2", "Db2">>,
     <<"Teradata", "Teradata">>, <<"Sybase", "Sybase">>, <<"HttpServer", "RestService">>,
     <<"RestService", "RestService">>, <<"OData", "OData">>, <<"WebApi", "WebApi">>,
     <<"Odbc", "Odbc">>, <<"FileServer", "FileServer">>, <<"FtpServer", "FtpServer">>,
     <<"Sftp", "Sftp">>, <<"Databricks", "Databricks">>,
     <<"FabricDataPipeline", "FabricDataPipeline">>,
     <<"FabricWarehouse", "DataWarehouse">>, <<"FabricLakehouse", "Lakehouse">> >>

RECURSIVE ConnectorGet(_, _)
\* ADF_TO_FABRIC_CONNECTOR_TYPE.get(adf_type) from entry i on; "" stands for None
ConnectorGet(adf_type, i) ==
  IF i > Len(ADF_TO_FABRIC_CONNECTOR_TYPE) THEN ""
  ELSE IF ADF_TO_FABRIC_CONNECTOR_TYPE[i][1] = adf_type
    THEN ADF_TO_FABRIC_CONNECTOR_TYPE[i][2]
  ELSE ConnectorGet(adf_type, i + 1)

RECURSIVE ConnectorIgnoringCase(_, _)
\* the first loop of map_connector_type from entry i on; "" when it ends
ConnectorIgnoringCase(adf_lower, i) ==
  IF i > Len(ADF_TO_FABRIC_CONNECTOR_TYPE) THEN ""
  ELSE IF lower(ADF_TO_FABRIC_CONNECTOR_TYPE[i][1]) = adf_lower
    THEN ADF_TO_FABRIC_CONNECTOR_TYPE[i][2]
  ELSE ConnectorIgnoringCase(adf_lower, i + 1)

RECURSIVE ConnectorContaining(_, _)
\* the second loop of map_connector_type from entry i on; "" when it ends
ConnectorContaining(adf_type, i) ==
  IF i > Len(ADF_TO_FABRIC_CONNECTOR_TYPE) THEN ""
  ELSE IF InStr(adf_type, ADF_TO_FABRIC_CONNECTOR_TYPE[i][1])
            \/ InStr(ADF_TO_FABRIC_CONNECTOR_TYPE[i][1], adf_type)
    THEN ADF_TO_FABRIC_CONNECTOR_TYPE[i][2]
  ELSE ConnectorContaining(adf_type, i + 1)

\* a mutant of map_connector_type: the containment loop runs before the
\* case-insensitive one
map_connector_type_ContainmentFirst(adf_type) ==
  IF ~Truthy(adf_type) THEN Str("Generic")
  ELSE IF ConnectorGet(adf_type.v, 1) # "" THEN Str(ConnectorGet(adf_type.v, 1))
  ELSE IF ConnectorContaining(adf_type.v, 1) # ""
    THEN Str(ConnectorContaining(adf_type.v, 1))
  ELSE IF ConnectorIgnoringCase(lower(adf_type.v), 1) # ""
    THEN Str(ConnectorIgnoringCase(lower(adf_type.v), 1))
  ELSE Str("Generic")

\* ConnectorMapping.map_connector_type
map_connector_type(adf_type) ==
  IF ~Truthy(adf_type) THEN Str("Generic")
  ELSE IF ConnectorGet(adf_type.v, 1) # "" THEN Str(ConnectorGet(adf_type.v, 1))
  ELSE IF ConnectorIgnoringCase(lower(adf_type.v), 1) # ""
    THEN Str(ConnectorIgnoringCase(lower(adf_type.v), 1))
  ELSE IF ConnectorContaining(adf_type.v, 1) # ""
    THEN Str(ConnectorContaining(adf_type.v, 1))
  ELSE Str("Generic")

-----------------------------------------------------------------------------
(* SummaryCollector *)

\* SummaryCollector.__init__
NewSummaryCollector ==
  [count_adf |-> <<>>, count_fabric |-> <<>>, mappings |-> <<>>,
   param_use |-> [source_container |-> JNull, sink_folder |-> JNull, sink_file |-> JNull],
   sink_choice |-> JNull, paths_converted |-> <<>>,
   dataset_type_mappings |-> <<>>, source_type_mappings |-> <<>>,
   sink_type_mappings |-> <<>>]

\* SummaryCollector.bump: dct[key] = dct.get(key, 0) + 1
bump(dct, key) ==
  [x \in DOMAIN dct \cup {key} |->
     IF x = key THEN (IF key \in DOMAIN dct THEN dct[key] ELSE 0) + 1 ELSE dct[x]]

\* `t or "Unknown"` used as a dict key
OrUnknown(t) == IF Truthy(t) THEN t.v ELSE "Unknown"

\* SummaryCollector.record_mapping
record_mapping(S, path, from_type, to_type) ==
  [S EXCEPT !.mappings = Append(@, [path |-> path, from |-> from_type, to |-> to_type]),
            !.paths_converted = Append(@, path),
            !.count_adf = bump(@, OrUnknown(from_type)),
            !.count_fabric = bump(@, OrUnknown(to_type))]

\* SummaryCollector.record_dataset_mapping
record_dataset_mapping(S, adf_type, fabric_type) ==
  [S EXCEPT !.dataset_type_mappings =
     [x \in DOMAIN @ \cup {adf_type} |-> IF x = adf_type THEN fabric_type ELSE @[x]]]

\* SummaryCollector.summary
summary(S) ==
  [activity_counts |-> [ADF_input |-> S.count_adf, Fabric_output |-> S.count_fabric],
   mappings |-> S.mappings,
   dataset_type_mappings |-> S.dataset_type_mappings,
   source_type_mappings |-> S.source_type_mappings,
   sink_type_mappings |-> S.sink_type_mappings,
   sink_choice |-> S.sink_choice,
   parameter_names_used |-> S.param_use,
   converted_paths |-> S.paths_converted]

-----------------------------------------------------------------------------
(* CONFIG *)

CONFIG ==
  [workspace_id |-> "95e132cd-cf5f-4e15-a9e1-7506994aa23c",
   notebook_id |-> "your_fabric_notebook_id",
   warehouse_connection_id |-> "06f15094-5415-40ca-9647-985fa72a41fe",
   lakehouse_connection_id |-> "e31de1f3-905a-400e-8c21-1bfcc5c7719c",
   oracle_connection_id |-> "1320ffbd-c314-4267-be68-d3e63f7ff4df",
   fabric_connection_id |-> "e31de1f3-905a-400e-8c21-1bfcc5c7719c",
   blob_connection_id |-> "835ec99b-46ec-4d2f-86e5-7e2ca052bf0c",
   warehouse_artifact_id |-> "6068bf54-5806-44df-996b-f19fac38d18c",
   warehouse_endpoint |->
     "uz5qo3w55cyebj7ffmgl7aydcm-zuzodfk7z4ku5kpboudjssvchq.datawarehouse.fabric.microsoft.com",
   lakehouse_artifact_id |-> "2d07daef-8c0b-454d-9a31-28faec11c440",
   lakehouse_name |-> "lh_sbm_bronze",
   placeholder_pipeline_id |-> "40dfe58b-19e1-47bf-bafb-2b38705dd06f",
   target_sink |-> "lakehouse",
   param_candidates |->
     [source_container |-> <<"containerName", "blob_container">>,
      sink_folder |-> <<"destinationPath", "blob_path">>,
      sink_file |-> <<"fileName", "file_name">>]]

-----------------------------------------------------------------------------
(* Helpers (section 4 of the source) *)

\* clean_val
clean_val(val) ==
  IF IsStr(val) /\ val.v = "[object Object]" THEN Str("FIX_ME_INVALID_OBJECT") ELSE val

RECURSIVE json_dumps(_)
\* json.dumps(val, ensure_ascii=False); the keys of a dict come in the order
\* of the record's fields, the order of insertion not being kept by the model
json_dumps(val) ==
  CASE val.k = "obj" ->
         IF DOMAIN val.v = {} THEN "{}"
         ELSE LET key == CHOOSE x \in DOMAIN val.v : TRUE
                  rest == Del(val, key)
                  head == "\"" \o key \o "\": " \o json_dumps(val.v[key])
              IN IF DOMAIN rest.v = {} THEN "{" \o head \o "}"
                 ELSE "{" \o head \o ", "
                        \o SubSeq(json_dumps(rest), 2, Len(json_dumps(rest)))
    [] val.k = "str" -> "\"" \o val.v \o "\""
    [] val.k = "null" -> "null"
    [] val.k = "bool" -> IF val.v THEN "true" ELSE "false"
    [] val.k = "int" -> ToString(val.v)
    [] OTHER ->
         IF Len(val.v) = 0 THEN "[]"
         ELSE IF Len(val.v) = 1 THEN "[" \o json_dumps(val.v[1]) \o "]"
         ELSE "[" \o json_dumps(val.v[1]) \o ", "
                \o SubSeq(json_dumps(List(Tail(val.v))), 2,
                          Len(json_dumps(List(Tail(val.v)))))

RECURSIVE get_flat_value(_)
\* get_flat_value
get_flat_value(val) ==
  IF IsDict(val)
    THEN IF Has(val, "value") THEN get_flat_value(val.v["value"])
         ELSE Str(json_dumps(val))
  ELSE IF val.k = "null" THEN Str("")
  ELSE IF IsStr(val) THEN clean_val(Str(strip(val.v)))
  ELSE clean_val(val)

\* is_expression
is_expression(val) == IsStr(val) /\ StartsExpression(val.v)

\* expr_param
expr_param(name) ==
  Obj([value |-> Str("@pipeline().parameters." \o name), type |-> Str("Expression")])

\* the first candidate that is a key of params, by position
RECURSIVE FirstDeclared(_, _, _)
FirstDeclared(candidates, i, params) ==
  IF i > Len(candidates) THEN ""
  ELSE IF candidates[i] \in DOMAIN params.v THEN candidates[i]
  ELSE FirstDeclared(candidates, i + 1, params)

\* (x or {}) for a JSON value x
OrEmptyDict(x) == IF Truthy(x) THEN x ELSE EmptyObj

\* a mutant of select_param_name: the declared parameters are not looked at
select_param_name_FirstCandidate(pipeline_props, key) ==
  IF key \in DOMAIN CONFIG.param_candidates THEN CONFIG.param_candidates[key][1] ELSE ""

\* select_param_name; "" stands for None
select_param_name(pipeline_props, key) ==
  LET candidates == IF key \in DOMAIN CONFIG.param_candidates
                      THEN CONFIG.param_candidates[key] ELSE <<>>
      params == OrEmptyDict(Get(OrEmptyDict(pipeline_props), "parameters", EmptyObj))
      hit == FirstDeclared(candidates, 1, params)
  IN IF hit # "" THEN hit
     ELSE IF Len(candidates) > 0 THEN candidates[1] ELSE ""

\* format_sp_param with the expression case emitted as a single wrapper
format_sp_param_SingleNesting(val) ==
  LET raw == get_flat_value(val)
  IN IF is_expression(raw)
       THEN Obj([value |-> raw, type |-> Str("Expression")])
       ELSE Obj([value |-> raw, type |-> Str("String")])

\* format_sp_param
format_sp_param(val) ==
  LET raw == get_flat_value(val)
  IN IF is_expression(raw)
       THEN Obj([value |-> Obj([value |-> raw, type |-> Str("Expression")]),
                 type |-> Str("String")])
       ELSE Obj([value |-> raw, type |-> Str("String")])

\* format_notebook_param
format_notebook_param(val) ==
  LET raw == get_flat_value(val)
      inferred_type == CASE raw.k = "bool" -> "bool"
                         [] raw.k = "int" -> "int"
                         [] OTHER -> "String"
  IN Obj([value |-> raw, type |-> Str(inferred_type)])

\* format_invoke_param
format_invoke_param(val) == get_flat_value(val)

\* a mutant of format_generic_value: the tag is decided on the value as given
format_generic_value_TagOfInput(val) ==
  Obj([value |-> get_flat_value(val),
       type |-> Str(IF is_expression(val) THEN "Expression" ELSE "String")])

\* format_generic_value
format_generic_value(val) ==
  LET raw == get_flat_value(val)
  IN Obj([value |-> raw,
          type |-> Str(IF is_expression(raw) THEN "Expression" ELSE "String")])

\* ParameterSubstitution.format_value_with_type
format_value_with_type(value) ==
  IF IsDict(value) /\ Has(value, "type") THEN value
  ELSE IF IsStr(value) /\ StartsExpression(value.v)
         THEN Obj([value |-> value, type |-> Str("Expression")])
         ELSE Obj([value |-> value, type |-> Str("String")])

-----------------------------------------------------------------------------
(* CopyActivityMapper lookups: table.get(t, t).  Only the entries that are *)
(* not the identity are listed; every other key maps to itself, which is   *)
(* also what the .get fallback returns.                                    *)

SOURCE_TYPE_MAP ==
  [SqlSource |-> "SqlServerSource", SqlDWSource |-> "AzureSqlDWSource",
   SqlMISource |-> "AzureSqlMISource", DB2Source |-> "Db2Source",
   AzureBlobStorageSource |-> "BlobSource"]

SINK_TYPE_MAP == [SqlSink |-> "SqlServerSink", LakehouseSink |-> "DelimitedTextSink"]

map_source_type(t) ==
  IF IsStr(t) /\ t.v \in DOMAIN SOURCE_TYPE_MAP THEN Str(SOURCE_TYPE_MAP[t.v]) ELSE t

map_sink_type(t) ==
  IF IsStr(t) /\ t.v \in DOMAIN SINK_TYPE_MAP THEN Str(SINK_TYPE_MAP[t.v]) ELSE t

\* DATASET_TYPE_MAP and STORE_SETTINGS_MAP hold identity entries only
map_dataset_type(t) == t
map_store_settings_type(t) == t

\* the model's source type names s with "Oracle" in s
OracleSourceTypes == {"OracleSource"}

-----------------------------------------------------------------------------
(* State threaded through one conversion: the two process-wide objects,   *)
(* the pending exception ("" when none), the number of deepcopy calls made *)
(* so far, and the convert_activity_list invocations made so far.          *)

Raise(st, exc) == [st EXCEPT !.err = exc]
Ok(st) == st.err = ""

\* Logger.write_section, as the entry handed to the sink
write_section(st, kind, path, payload) ==
  [st EXCEPT !.L = Append(@, [kind |-> kind, path |-> path, payload |-> Val(payload)])]

write_pre(st, path, act) == write_section(st, "PRE", path, act)
write_post(st, path, act) == write_section(st, "POST", path, act)

\* Logger.write_mapping
write_mapping(st, path, from_type, to_type, notes) ==
  write_section(st, "MAPPED", path,
                Obj([from |-> from_type, to |-> to_type, notes |-> notes]))

\* SUMMARY.record_mapping(...) on the threaded state
Record(st, path, from_type, to_type) ==
  [st EXCEPT !.S = record_mapping(@, path, from_type, to_type)]

RecordDataset(st, adf_type, fabric_type) ==
  [st EXCEPT !.S = record_dataset_mapping(@, adf_type, fabric_type)]

-----------------------------------------------------------------------------
(* Core: _base_props *)

\* old_act.get("dependsOn", []): the default is a new empty list
DependsOnOf(act) ==
  Get(act, "dependsOn", [id |-> FreshListId, k |-> "list", v |-> <<>>])

\* a mutant of _base_props: dependsOn handed over without deepcopy
BaseProps_SharedDependsOn(old_act, new_type, c) ==
  Obj([name |-> Get(old_act, "name", Str("Unnamed_" \o Fmt(new_type))),
       type |-> new_type,
       dependsOn |-> DependsOnOf(old_act),
       policy |-> deepcopy(Get(old_act, "policy", EmptyObj), c),
       userProperties |-> deepcopy(Get(old_act, "userProperties", List(<<>>)), c)])

\* _base_props; c numbers its deepcopy calls
base_props(old_act, new_type, c) ==
  Obj([name |-> Get(old_act, "name", Str("Unnamed_" \o Fmt(new_type))),
       type |-> new_type,
       dependsOn |-> deepcopy(DependsOnOf(old_act), c),
       policy |-> deepcopy(Get(old_act, "policy", EmptyObj), c),
       userProperties |-> deepcopy(Get(old_act, "userProperties", List(<<>>)), c)])

\* act.get("typeProperties", {}) or {}
TpOld(act) == OrEmptyDict(Get(act, "typeProperties", EmptyObj))

\* the inline warehouse connection block of convert_stored_proc / convert_lookup
WarehouseConnectionSettings ==
  Obj([name |-> Str("wh_sbm_gold"),
       properties |-> Obj(
         [annotations |-> List(<<>>),
          type |-> Str("DataWarehouse"),
          typeProperties |-> Obj([endpoint |-> Str(CONFIG.warehouse_endpoint),
                                  artifactId |-> Str(CONFIG.warehouse_artifact_id),
                                  workspaceId |-> Str(CONFIG.workspace_id)]),
          externalReferences |-> Obj([connection |-> Str(CONFIG.warehouse_connection_id)])])])

\* a handler's result: the node it returns and the state it leaves
Done(node, st) == [node |-> node, st |-> [st EXCEPT !.nc = @ + 1]]
Failed(st, exc) == [node |-> JNull, st |-> Raise(st, exc)]

-----------------------------------------------------------------------------
(* 5. EnhancedCopyConverter *)

\* EnhancedCopyConverter._transform_policy
transform_policy(adf_policy) ==
  Obj([timeout |-> Get(adf_policy, "timeout", Str("0.12: 00:00")),
       retry |-> Get(adf_policy, "retry", Int_(0)),
       retryIntervalInSeconds |-> Get(adf_policy, "retryIntervalInSeconds", Int_(30)),
       secureOutput |-> Get(adf_policy, "secureOutput", Bool(FALSE)),
       secureInput |-> Get(adf_policy, "secureInput", Bool(FALSE))])

\* keys copied through when present: as they are / through format_value_with_type
SourcePlainKeys ==
  {"storedProcedureParameters", "queryTimeout", "isolationLevel", "partitionOption",
   "partitionSettings", "recursive", "maxConcurrentConnections", "additionalColumns"}
SourceFormattedKeys ==
  {"sqlReaderQuery", "sqlReaderStoredProcedureName", "oracleReaderQuery",
   "wildcardFileName", "wildcardFolderPath", "modifiedDatetimeStart",
   "modifiedDatetimeEnd"}
SinkPlainKeys ==
  {"writeBehavior", "sqlWriterStoredProcedureName", "sqlWriterTableType",
   "storedProcedureParameters", "tableOption", "writeBatchSize", "writeBatchTimeout",
   "maxConcurrentConnections", "upsertSettings"}
SinkFormattedKeys == {"preCopyScript"}
StoreCommonKeys ==
  {"recursive", "wildcardFileName", "wildcardFolderPath", "enablePartitionDiscovery",
   "partitionRootPath", "deleteFilesAfterCompletion", "modifiedDatetimeStart",
   "modifiedDatetimeEnd", "maxConcurrentConnections", "disableMetricsCollection"}
StoreWriteKeys == {"copyBehavior", "maxRowsPerFile", "metadata", "blockSizeInMB"}

\* EnhancedCopyConverter._transform_store_settings
transform_store_settings(adf_store_settings, is_source) ==
  LET keep == (StoreCommonKeys \cup (IF is_source THEN {} ELSE StoreWriteKeys))
                \cap DOMAIN adf_store_settings.v
  IN Obj([x \in keep \cup {"type"} |->
            IF x = "type"
              THEN map_store_settings_type(Get(adf_store_settings, "type", JNull))
              ELSE adf_store_settings.v[x]])

\* EnhancedCopyConverter._transform_format_settings
transform_format_settings(adf_format_settings, c) == deepcopy(adf_format_settings, c)

DelimitedTextProps(location) ==
  Obj([location |-> location, columnDelimiter |-> Str(","), escapeChar |-> Str("\\"),
       firstRowAsHeader |-> Bool(TRUE), quoteChar |-> Str("\"")])

\* EnhancedCopyConverter._build_source_dataset_settings (the value built)
build_source_dataset_settings(source_type, container_param) ==
  IF IsStr(source_type) /\ source_type.v \in OracleSourceTypes
    THEN Obj([annotations |-> List(<<>>),
              type |-> map_dataset_type(Str("OracleTable")),
              schema |-> List(<<>>),
              externalReferences |-> Obj([connection |-> Str(CONFIG.oracle_connection_id)])])
    ELSE Obj([annotations |-> List(<<>>),
              type |-> map_dataset_type(Str("DelimitedText")),
              typeProperties |-> DelimitedTextProps(
                Obj([type |-> Str("AzureBlobStorageLocation"),
                     container |-> expr_param(container_param)])),
              schema |-> List(<<>>),
              externalReferences |-> Obj([connection |-> Str(CONFIG.blob_connection_id)])])

\* EnhancedCopyConverter._build_sink_dataset_settings (the value built);
\* sink_target is CONFIG.get("target_sink", "lakehouse") as the process has it
build_sink_dataset_settings(sink_target, folder_param, file_param) ==
  IF sink_target = "lakehouse"
    THEN Obj([annotations |-> List(<<>>),
              type |-> map_dataset_type(Str("DelimitedText")),
              connectionSettings |-> Obj(
                [name |-> Str(CONFIG.lakehouse_name),
                 properties |-> Obj(
                   [annotations |-> List(<<>>),
                    type |-> Str("Lakehouse"),
                    typeProperties |-> Obj([workspaceId |-> Str(CONFIG.workspace_id),
                                            artifactId |-> Str(CONFIG.lakehouse_artifact_id),
                                            rootFolder |-> Str("Files")]),
                    externalReferences |->
                      Obj([connection |-> Str(CONFIG.lakehouse_connection_id)])])]),
              typeProperties |-> DelimitedTextProps(
                Obj([type |-> Str("LakehouseLocation"),
                     folderPath |-> expr_param(folder_param)])),
              schema |-> List(<<>>)])
    ELSE EmptyObj

\* EnhancedCopyConverter._transform_source_comprehensive (the value built)
transform_source_comprehensive(adf_source, container_param, c) ==
  LET source_type == Get(adf_source, "type", Str("DelimitedTextSource"))
      keys == ((SourcePlainKeys \cup SourceFormattedKeys
                 \cup {"storeSettings", "formatSettings"}) \cap DOMAIN adf_source.v)
                \cup {"type", "datasetSettings"}
  IN Obj([x \in keys |->
            CASE x = "type" -> map_source_type(source_type)
              [] x = "datasetSettings" ->
                   build_source_dataset_settings(source_type, container_param)
              [] x = "storeSettings" ->
                   transform_store_settings(adf_source.v[x], TRUE)
              [] x = "formatSettings" -> transform_format_settings(adf_source.v[x], c)
              [] x \in SourceFormattedKeys -> format_value_with_type(adf_source.v[x])
              [] OTHER -> adf_source.v[x]])

\* EnhancedCopyConverter._transform_sink_comprehensive (the value built)
transform_sink_comprehensive(adf_sink, sink_target, folder_param, file_param, c) ==
  LET sink_type == Get(adf_sink, "type", Str("DelimitedTextSink"))
      keys == ((SinkPlainKeys \cup SinkFormattedKeys
                 \cup {"storeSettings", "formatSettings"}) \cap DOMAIN adf_sink.v)
                \cup {"type", "datasetSettings"}
  IN Obj([x \in keys |->
            CASE x = "type" -> map_sink_type(sink_type)
              [] x = "datasetSettings" ->
                   build_sink_dataset_settings(sink_target, folder_param, file_param)
              [] x = "storeSettings" -> transform_store_settings(adf_sink.v[x], FALSE)
              [] x = "formatSettings" -> transform_format_settings(adf_sink.v[x], c)
              [] x \in SinkFormattedKeys -> format_value_with_type(adf_sink.v[x])
              [] OTHER -> adf_sink.v[x]])

\* select_param_name(...) or default
ParamOr(pipeline_props, key, default) ==
  LET n == select_param_name(pipeline_props, key) IN IF n = "" THEN default ELSE n

CopyOptionalKeys ==
  {"translator", "enableSkipIncompatibleRow", "validateDataConsistency",
   "parallelCopies", "dataIntegrationUnits"}

\* what one convert_copy_full call writes to SUMMARY, in the code's order
CopySummary(S, sink_target, src_t, snk_t, container_param, folder_param, file_param, name, adf_type, fabric_type) ==
  LET S1 == [S EXCEPT !.param_use = [source_container |-> Str(container_param),
                                     sink_folder |-> Str(folder_param),
                                     sink_file |-> Str(file_param)]]
      S2 == [S1 EXCEPT !.source_type_mappings =
               [x \in DOMAIN @ \cup {Fmt(src_t)} |->
                  IF x = Fmt(src_t) THEN map_source_type(src_t) ELSE @[x]]]
      S3 == record_dataset_mapping(
              S2,
              IF IsStr(src_t) /\ src_t.v \in OracleSourceTypes
                THEN "OracleTable" ELSE "DelimitedText (Source)",
              IF IsStr(src_t) /\ src_t.v \in OracleSourceTypes
                THEN Str("OracleTable") ELSE Str("DelimitedText"))
      S4 == [S3 EXCEPT !.sink_type_mappings =
               [x \in DOMAIN @ \cup {Fmt(snk_t)} |->
                  IF x = Fmt(snk_t) THEN map_sink_type(snk_t) ELSE @[x]]]
      S5 == [S4 EXCEPT !.sink_choice = Str(sink_target)]
      S6 == IF sink_target = "lakehouse"
              THEN record_dataset_mapping(S5, "DelimitedText (Sink)", Str("DelimitedText"))
              ELSE S5
  IN record_mapping(S6, name, adf_type, fabric_type)

\* EnhancedCopyConverter.convert_copy_full (through convert_copy)
convert_copy(act, pipeline_props, st) ==
  LET adf_type == Get(act, "type", JNull)
      fabric_type == map_activity_type(adf_type)
      policy == Get(act, "policy", EmptyObj)
      adf_type_props == Get(act, "typeProperties", EmptyObj)
      adf_source == Get(adf_type_props, "source", EmptyObj)
      adf_sink == Get(adf_type_props, "sink", EmptyObj)
      container_param == ParamOr(pipeline_props, "source_container", "containerName")
      folder_param == ParamOr(pipeline_props, "sink_folder", "destinationPath")
      file_param == ParamOr(pipeline_props, "sink_file", "fileName")
      opt == CopyOptionalKeys \cap DOMAIN adf_type_props.v
      tp == Obj([x \in {"source", "sink", "enableStaging"} \cup opt |->
                   CASE x = "source" ->
                          transform_source_comprehensive(adf_source, container_param, st.nc)
                     [] x = "sink" ->
                          transform_sink_comprehensive(adf_sink, st.target_sink,
                                                       folder_param, file_param,
                                                       st.nc)
                     [] x = "enableStaging" ->
                          Get(adf_type_props, "enableStaging", Bool(FALSE))
                     [] x = "translator" -> deepcopy(adf_type_props.v[x], st.nc)
                     [] OTHER -> adf_type_props.v[x]])
      node == Obj([name |-> Get(act, "name", Str("UnnamedCopy")),
                   type |-> fabric_type,
                   dependsOn |-> deepcopy(DependsOnOf(act), st.nc),
                   policy |-> transform_policy(policy),
                   userProperties |-> deepcopy(Get(act, "userProperties", List(<<>>)), st.nc),
                   typeProperties |-> tp])
  IN IF ~IsDict(policy) \/ ~IsDict(adf_type_props) THEN Failed(st, "AttributeError")
     ELSE IF ~IsDict(adf_source) \/ ~IsDict(adf_sink) THEN Failed(st, "AttributeError")
     ELSE Done(node,
               [st EXCEPT !.S = CopySummary(@, st.target_sink,
                                            Get(adf_source, "type", Str("DelimitedTextSource")),
                                            Get(adf_sink, "type", Str("DelimitedTextSink")),
                                            container_param, folder_param, file_param,
                                            Get(act, "name", JNull), adf_type, fabric_type)])

-----------------------------------------------------------------------------
(* 6. Activity converters *)

\* typeProperties that `act.get("typeProperties", {}) or {}` cannot be read from
TpUnreadable(act) == ~IsDict(TpOld(act))

\* d.get(key, {}) read as a dict of parameters
ParamsOf(d, key) == Get(d, key, EmptyObj)

\* convert_stored_proc
convert_stored_proc(act, st) ==
  LET adf_type == Get(act, "type", JNull)
      fabric_type == map_activity_type(adf_type)
      tp_old == TpOld(act)
      params == ParamsOf(tp_old, "storedProcedureParameters")
      node == Put(Put(base_props(act, fabric_type, st.nc), "typeProperties",
                  Obj([storedProcedureName |->
                         get_flat_value(Get(tp_old, "storedProcedureName", Str(""))),
                       storedProcedureParameters |->
                         Obj([x \in DOMAIN params.v |-> format_sp_param(params.v[x])])])),
                  "connectionSettings", WarehouseConnectionSettings)
  IN IF TpUnreadable(act) THEN Failed(st, "AttributeError")
     ELSE IF ~IsDict(params) THEN Failed(st, "AttributeError")
     ELSE Done(node, Record(st, Get(act, "name", JNull), adf_type, fabric_type))

\* convert_invoke_pipeline
convert_invoke_pipeline(act, st) ==
  LET adf_type == Get(act, "type", JNull)
      fabric_type == map_activity_type(adf_type)
      old_policy == Get(act, "policy", EmptyObj)
      tp_old == TpOld(act)
      params == ParamsOf(tp_old, "parameters")
      policy == Obj([timeout |-> Get(old_policy, "timeout", Str("0.12:00:00")),
                     retry |-> Get(old_policy, "retry", Int_(0)),
                     retryIntervalInSeconds |->
                       Get(old_policy, "retryIntervalInSeconds", Int_(30)),
                     secureOutput |-> Get(old_policy, "secureOutput", Bool(FALSE)),
                     secureInput |-> Get(old_policy, "secureInput", Bool(FALSE))])
      tp == Obj([waitOnCompletion |-> Get(tp_old, "waitOnCompletion", Str("3")),
                 operationType |-> Str("InvokeFabricPipeline"),
                 pipelineId |-> Get(tp_old, "pipelineId", Str(CONFIG.placeholder_pipeline_id)),
                 workspaceId |-> Str(CONFIG.workspace_id),
                 parameters |-> Obj([x \in DOMAIN params.v |-> format_invoke_param(params.v[x])])])
      node == Put(Put(Put(base_props(act, fabric_type, st.nc), "policy", policy),
                      "typeProperties", tp),
                  "externalReferences",
                  Obj([connection |-> Str(CONFIG.fabric_connection_id)]))
  IN IF ~IsDict(old_policy) \/ TpUnreadable(act) THEN Failed(st, "AttributeError")
     ELSE IF ~IsDict(params) THEN Failed(st, "AttributeError")
     ELSE Done(node, Record(st, Get(act, "name", JNull), adf_type, fabric_type))

\* convert_notebook
convert_notebook(act, st) ==
  LET adf_type == Get(act, "type", JNull)
      fabric_type == map_activity_type(adf_type)
      tp_old == TpOld(act)
      first == ParamsOf(tp_old, "baseParameters")
      base_params == IF Truthy(first) THEN first ELSE ParamsOf(tp_old, "parameters")
      tp == Obj([notebookId |-> Get(tp_old, "notebookId", Str(CONFIG.notebook_id)),
                 workspaceId |-> Str(CONFIG.workspace_id),
                 parameters |->
                   Obj([x \in DOMAIN base_params.v |->
                          format_notebook_param(base_params.v[x])])])
      node == Put(base_props(act, fabric_type, st.nc), "typeProperties", tp)
  IN IF TpUnreadable(act) THEN Failed(st, "AttributeError")
     ELSE IF ~IsDict(base_params) THEN Failed(st, "AttributeError")
     ELSE Done(node, Record(st, Get(act, "name", JNull), adf_type, fabric_type))

\* the query of convert_lookup with the explicit query field taken first
LookupQuery_QueryFirst(src_old) ==
  IF Has(src_old, "query") THEN get_flat_value(src_old.v["query"])
  ELSE IF Has(src_old, "storedProcedureName")
    THEN Str("EXEC " \o Fmt(get_flat_value(src_old.v["storedProcedureName"])))
  ELSE IF Has(src_old, "sqlReaderQuery") THEN get_flat_value(src_old.v["sqlReaderQuery"])
  ELSE Str("")

\* convert_lookup: sql_expr, by the if / elif chain on the keys of src_old
LookupQuery(src_old) ==
  IF Has(src_old, "sqlReaderQuery") THEN get_flat_value(src_old.v["sqlReaderQuery"])
  ELSE IF Has(src_old, "storedProcedureName")
    THEN Str("EXEC " \o Fmt(get_flat_value(src_old.v["storedProcedureName"])))
  ELSE IF Has(src_old, "query") THEN get_flat_value(src_old.v["query"])
  ELSE Str("")

\* convert_lookup
convert_lookup(act, st) ==
  LET adf_type == Get(act, "type", JNull)
      fabric_type == map_activity_type(adf_type)
      tp_old == TpOld(act)
      src_old == OrEmptyDict(Get(tp_old, "source", EmptyObj))
      sql_expr == LookupQuery(src_old)
      fabric_dataset_type == map_dataset_type(Str("DataWarehouseTable"))
      required ==
        [source |-> Obj([type |-> Str("DataWarehouseSource"),
                         sqlReaderQuery |->
                           Obj([value |-> sql_expr,
                                type |-> Str(IF is_expression(sql_expr)
                                               THEN "Expression" ELSE "String")]),
                         queryTimeout |->
                           Get(src_old, "queryTimeout",
                               Get(tp_old, "queryTimeout", Str("02:00:00"))),
                         partitionOption |-> Str("None")]),
         datasetSettings |-> Obj([annotations |-> List(<<>>),
                                  type |-> fabric_dataset_type,
                                  schema |-> List(<<>>),
                                  connectionSettings |-> WarehouseConnectionSettings])]
      tp == IF Has(tp_old, "firstRowOnly")
              THEN Put(Obj(required), "firstRowOnly", tp_old.v["firstRowOnly"])
              ELSE Obj(required)
      node == Put(base_props(act, fabric_type, st.nc), "typeProperties", tp)
  IN IF TpUnreadable(act) THEN Failed(st, "AttributeError")
     ELSE IF ~IsDict(src_old) THEN Failed(st, "AttributeError")
     ELSE Done(node,
               Record(RecordDataset(st, "DataWarehouseTable", fabric_dataset_type),
                      Get(act, "name", JNull), adf_type, fabric_type))

\* convert_get_metadata
convert_get_metadata(act, pipeline_props, st) ==
  LET adf_type == Get(act, "type", JNull)
      fabric_type == map_activity_type(adf_type)
      tp_old == TpOld(act)
      container_param == ParamOr(pipeline_props, "source_container", "containerName")
      fabric_dataset_type == map_dataset_type(Str("DelimitedText"))
      base_location == Obj([type |-> Str("AzureBlobStorageLocation"),
                            container |-> expr_param(container_param)])
      location ==
        IF Get(act, "name", JNull) = Str("FileMetadata")
          THEN Put(base_location, "fileName",
                   Obj([value |-> Str("@item().name"), type |-> Str("Expression")]))
          ELSE base_location
      new_ds == Obj([annotations |-> List(<<>>),
                     type |-> fabric_dataset_type,
                     typeProperties |-> Obj([location |-> location])])
      tp == Obj([datasetSettings |-> new_ds,
                 fieldList |-> Get(tp_old, "fieldList", List(<<>>)),
                 storeSettings |-> Obj([type |-> Str("AzureBlobStorageReadSettings")]),
                 formatSettings |-> Obj([type |-> Str("DelimitedTextReadSettings")])])
      node == Put(base_props(act, fabric_type, st.nc), "typeProperties", tp)
      st1 == [st EXCEPT !.S.param_use.source_container = Str(container_param)]
  IN IF TpUnreadable(act) THEN Failed(st, "AttributeError")
     ELSE Done(node,
               Record(RecordDataset(st1, "DelimitedText (GetMetadata)", fabric_dataset_type),
                      Get(act, "name", JNull), adf_type, fabric_type))

\* convert_set_variable
convert_set_variable(act, st) ==
  LET adf_type == Get(act, "type", JNull)
      fabric_type == map_activity_type(adf_type)
      tp_old == TpOld(act)
      tp == Obj([variableName |-> Get(tp_old, "variableName", Str("")),
                 value |-> format_generic_value(Get(tp_old, "value", EmptyObj))])
      node == Put(base_props(act, fabric_type, st.nc), "typeProperties", tp)
  IN IF TpUnreadable(act) THEN Failed(st, "AttributeError")
     ELSE Done(node, Record(st, Get(act, "name", JNull), adf_type, fabric_type))

\* convert_delete
convert_delete(act, pipeline_props, st) ==
  LET adf_type == Get(act, "type", JNull)
      fabric_type == map_activity_type(adf_type)
      tp_old == TpOld(act)
      dataset_ref == Get(tp_old, "dataset", EmptyObj)
      dataset_name == Get(dataset_ref, "referenceName", JNull)
      fabric_dataset_type == map_dataset_type(Str("DelimitedText"))
      tp == Obj([enableLogging |-> Get(tp_old, "enableLogging", Bool(FALSE)),
                 storeSettings |->
                   Obj([type |-> Str("AzureBlobStorageReadSettings"),
                        recursive |-> Bool(TRUE),
                        wildcardFileName |->
                          format_generic_value(Get(tp_old, "wildcardFileName", Str("")))]),
                 datasetSettings |->
                   Obj([annotations |-> List(<<>>),
                        type |-> fabric_dataset_type,
                        typeProperties |->
                          Obj([location |-> Obj([type |-> Str("AzureBlobStorageLocation")])]),
                        schema |-> List(<<>>)])])
      node == Put(base_props(act, fabric_type, st.nc), "typeProperties", tp)
  IN IF TpUnreadable(act) THEN Failed(st, "AttributeError")
     ELSE IF ~IsDict(dataset_ref) THEN Failed(st, "AttributeError")
     ELSE Done(node,
               Record(RecordDataset(st, "Delete:" \o Fmt(dataset_name), fabric_dataset_type),
                      Get(act, "name", JNull), adf_type, fabric_type))

\* convert_script
convert_script(act, st) ==
  LET adf_type == Get(act, "type", JNull)
      fabric_type == map_activity_type(adf_type)
      tp_old == TpOld(act)
      tp == Obj([scripts |-> Get(tp_old, "scripts", List(<<>>)),
                 scriptBlockExecutionTimeout |->
                   Get(tp_old, "scriptBlockExecutionTimeout", Str("02:00:00"))])
      node == Put(Put(base_props(act, fabric_type, st.nc), "typeProperties", tp),
                  "externalReferences",
                  Obj([connection |-> Str(CONFIG.warehouse_connection_id)]))
  IN IF TpUnreadable(act) THEN Failed(st, "AttributeError")
     ELSE Done(node, Record(st, Get(act, "name", JNull), adf_type, fabric_type))

\* adf_type.replace("HDInsight", "") for the five dispatched type tags
\* convert_hdinsight_activity
convert_hdinsight_activity(act, st) ==
  LET adf_type == Get(act, "type", JNull)
      fabric_type == Str("AzureHDInsight")
      hdi_activity_type == IF IsStr(adf_type) /\ startswith(adf_type.v, "HDInsight")
                             THEN Str(replace(adf_type.v, "HDInsight", ""))
                             ELSE Str("Unknown")
      tp_old == TpOld(act)
      copied == deepcopy(tp_old, st.nc)
      \* {"hdiActivityType": ..., **deepcopy(tp_old)}: a later key wins
      tp == Obj([x \in DOMAIN copied.v \cup {"hdiActivityType"} |->
                   IF x \in DOMAIN copied.v THEN copied.v[x] ELSE hdi_activity_type])
      node == Put(base_props(act, fabric_type, st.nc), "typeProperties", tp)
      name == Get(act, "name", JNull)
  IN IF TpUnreadable(act) THEN Failed(st, "TypeError")
     ELSE Done(node,
               write_mapping(Record(st, name, adf_type, fabric_type),
                             Fmt(name), adf_type, fabric_type,
                             Obj([consolidation |->
                                    Str(Fmt(adf_type) \o " -> AzureHDInsight (type: "
                                          \o Fmt(hdi_activity_type) \o ")")])))

-----------------------------------------------------------------------------
(* 7. Core logic: the recursive tree walker *)

Max(S) == CHOOSE x \in S : \A y \in S : y <= x

\* the four typeProperties keys that hold an activity list directly
ListContainers == {"ifTrueActivities", "ifFalseActivities", "activities", "defaultActivities"}

RECURSIVE Height(_)
\* number of activity levels in and below a list: 0 for a non-list or an empty
\* list, else 1 + the height of the highest list nested in one of its activities
Height(list) ==
  IF ~IsList(list) \/ Len(list.v) = 0 THEN 0
  ELSE 1 + Max({0} \cup UNION {
         LET act == list.v[i]
             tp == IF IsDict(act) THEN Get(act, "typeProperties", JNull) ELSE JNull
             cases == IF IsDict(tp) THEN Get(tp, "cases", JNull) ELSE JNull
         IN IF ~IsDict(tp) THEN {0}
            ELSE {Height(Get(tp, key, JNull)) : key \in ListContainers}
                   \cup (IF IsList(cases)
                           THEN {IF IsDict(cases.v[j])
                                   THEN Height(Get(cases.v[j], "activities", JNull)) ELSE 0
                                 : j \in 1..Len(cases.v)}
                           ELSE {})
         : i \in 1..Len(list.v)})

RECURSIVE convert_activity_list(_, _, _, _, _, _)

\* a mutant of convert_for_each: the recursive call is handed the activity
\* itself (its type tag and body removed) instead of its body
ForEach_NoDescent(act, pipeline_props, depth, st) ==
  LET adf_type == Get(act, "type", JNull)
      fabric_type == map_activity_type(adf_type)
      tp_old == TpOld(act)
      inner == convert_activity_list(
                 List(<<Del(Del(act, "type"), "typeProperties")>>), pipeline_props,
                 Fmt(Get(act, "name", JNull)) \o ".ForEach", depth + 1,
                 Height(List(<<act>>)), st)
      tp == Obj([items |-> format_generic_value(Get(tp_old, "items", JNull)),
                 isSequential |-> Get(tp_old, "isSequential", Bool(TRUE)),
                 activities |-> inner.out])
      node == Put(base_props(act, fabric_type, inner.st.nc), "typeProperties", tp)
  IN IF TpUnreadable(act) THEN Failed(st, "AttributeError")
     ELSE IF inner.st.err # "" THEN [node |-> JNull, st |-> inner.st]
     ELSE Done(node, Record(inner.st, Get(act, "name", JNull), adf_type, fabric_type))

\* convert_for_each; depth is the recursion depth of the calling invocation
convert_for_each(act, pipeline_props, depth, st) ==
  LET adf_type == Get(act, "type", JNull)
      fabric_type == map_activity_type(adf_type)
      tp_old == TpOld(act)
      inner == convert_activity_list(
                 Get(tp_old, "activities", List(<<>>)), pipeline_props,
                 Fmt(Get(act, "name", JNull)) \o ".ForEach", depth + 1,
                 Height(List(<<act>>)), st)
      tp == Obj([items |-> format_generic_value(Get(tp_old, "items", JNull)),
                 isSequential |-> Get(tp_old, "isSequential", Bool(TRUE)),
                 activities |-> inner.out])
      node == Put(base_props(act, fabric_type, inner.st.nc), "typeProperties", tp)
  IN IF TpUnreadable(act) THEN Failed(st, "AttributeError")
     ELSE IF inner.st.err # "" THEN [node |-> JNull, st |-> inner.st]
     ELSE Done(node, Record(inner.st, Get(act, "name", JNull), adf_type, fabric_type))

HDInsightTypes ==
  {"HDInsightHive", "HDInsightPig", "HDInsightMapReduce", "HDInsightSpark",
   "HDInsightStreaming"}

\* atype or "Unknown"
TypeOrUnknown(atype) == IF Truthy(atype) THEN atype ELSE Str("Unknown")

\* the else branch of the dispatch: deepcopy, drop linkedServiceName, log, record
Passthrough(act, path, atype, fabric_type, st) ==
  LET copied == deepcopy(act, st.nc)
      new_act == IF Has(copied, "linkedServiceName")
                   THEN Del(copied, "linkedServiceName") ELSE copied
  IN Done(new_act,
          Record(write_mapping(st, path, TypeOrUnknown(atype), fabric_type,
                               Obj([note |-> Str("passthrough + LS removed")])),
                 Str(path), TypeOrUnknown(atype), fabric_type))

\* the if / elif chain over atype
Dispatch(act, path, atype, fabric_type, pipeline_props, depth, st) ==
  CASE atype = Str("DatabricksNotebook") -> convert_notebook(act, st)
    [] atype = Str("SqlServerStoredProcedure") -> convert_stored_proc(act, st)
    [] atype = Str("ExecutePipeline") -> convert_invoke_pipeline(act, st)
    [] atype = Str("Copy") -> convert_copy(act, pipeline_props, st)
    [] atype = Str("Lookup") -> convert_lookup(act, st)
    [] atype = Str("GetMetadata") -> convert_get_metadata(act, pipeline_props, st)
    [] atype = Str("Delete") -> convert_delete(act, pipeline_props, st)
    [] atype = Str("Script") -> convert_script(act, st)
    [] atype = Str("SetVariable") -> convert_set_variable(act, st)
    [] atype = Str("ForEach") -> convert_for_each(act, pipeline_props, depth, st)
    [] IsStr(atype) /\ atype.v \in HDInsightTypes -> convert_hdinsight_activity(act, st)
    [] OTHER -> Passthrough(act, path, atype, fabric_type, st)

\* one `if isinstance(tp.get(key), list): tp[key] = convert_activity_list(...)`
RecurseInto(r, key, suffix, path, pipeline_props, depth, h) ==
  IF IsList(Get(r.tp, key, JNull))
    THEN LET c == convert_activity_list(r.tp.v[key], pipeline_props, path \o suffix,
                                        depth + 1, h, r.st)
         IN [tp |-> Put(r.tp, key, c.out), st |-> c.st]
    ELSE r

RECURSIVE ConvertCases(_, _, _, _, _, _, _, _)
\* the list comprehension over enumerate(tp["cases"])
ConvertCases(cases, i, done, path, pipeline_props, depth, h, st) ==
  IF i > Len(cases) THEN [out |-> done, st |-> st]
  ELSE IF ~IsDict(cases[i]) THEN [out |-> done, st |-> Raise(st, "TypeError")]
  ELSE LET c == convert_activity_list(
                  Get(cases[i], "activities", List(<<>>)), pipeline_props,
                  path \o ".cases[" \o ToString(i - 1) \o "].activities",
                  depth + 1, h, st)
       IN IF c.st.err # "" THEN [out |-> done, st |-> c.st]
          ELSE ConvertCases(cases, i + 1,
                            Append(done, Put(Obj(cases[i].v), "activities", c.out)),
                            path, pipeline_props, depth, h, c.st)

RecurseCases(r, path, pipeline_props, depth, h) ==
  IF IsList(Get(r.tp, "cases", JNull))
    THEN LET c == ConvertCases(r.tp.v["cases"].v, 1, <<>>, path, pipeline_props, depth,
                               h, r.st)
         IN [tp |-> Put(r.tp, "cases", List(c.out)), st |-> c.st]
    ELSE r

\* a mutant of the nested-container block: the false branch is left as it is
RecurseContainers_SkipFalseBranch(new_act, path, pipeline_props, depth, h, st) ==
  LET tp == Get(new_act, "typeProperties", JNull)
      r0 == [tp |-> tp, st |-> st]
      r1 == RecurseInto(r0, "ifTrueActivities", ".ifTrueActivities", path,
                        pipeline_props, depth, h)
      r3 == RecurseInto(r1, "activities", ".activities", path, pipeline_props, depth, h)
      r4 == RecurseCases(r3, path, pipeline_props, depth, h)
      r5 == RecurseInto(r4, "defaultActivities", ". defaultActivities", path,
                        pipeline_props, depth, h)
  IN IF ~IsDict(tp) THEN [node |-> new_act, st |-> st]
     ELSE IF r1.st.err # "" THEN [node |-> JNull, st |-> r1.st]
     ELSE IF r3.st.err # "" THEN [node |-> JNull, st |-> r3.st]
     ELSE IF r4.st.err # "" THEN [node |-> JNull, st |-> r4.st]
     ELSE [node |-> Put(new_act, "typeProperties", r5.tp), st |-> r5.st]

\* the "Recurse into nested containers" block, in the code's order; an
\* exception raised in one list (err # "") ends the block
RecurseContainers(new_act, path, pipeline_props, depth, h, st) ==
  LET tp == Get(new_act, "typeProperties", JNull)
      r0 == [tp |-> tp, st |-> st]
      r1 == RecurseInto(r0, "ifTrueActivities", ".ifTrueActivities", path,
                        pipeline_props, depth, h)
      r2 == RecurseInto(r1, "ifFalseActivities", ".ifFalseActivities", path,
                        pipeline_props, depth, h)
      r3 == RecurseInto(r2, "activities", ".activities", path, pipeline_props, depth, h)
      r4 == RecurseCases(r3, path, pipeline_props, depth, h)
      r5 == RecurseInto(r4, "defaultActivities", ". defaultActivities", path,
                        pipeline_props, depth, h)
  IN IF ~IsDict(tp) THEN [node |-> new_act, st |-> st]
     ELSE IF r1.st.err # "" THEN [node |-> JNull, st |-> r1.st]
     ELSE IF r2.st.err # "" THEN [node |-> JNull, st |-> r2.st]
     ELSE IF r3.st.err # "" THEN [node |-> JNull, st |-> r3.st]
     ELSE IF r4.st.err # "" THEN [node |-> JNull, st |-> r4.st]
     ELSE [node |-> Put(new_act, "typeProperties", r5.tp), st |-> r5.st]

\* the loop body after the dispatch chain left d: the container block, which
\* an exception raised by a converter skips
AfterDispatch(d, path, pipeline_props, depth, h) ==
  IF d.st.err # "" THEN d
  ELSE RecurseContainers(d.node, path, pipeline_props, depth, h, d.st)

\* the end of the loop body, r being what the container block left: the POST
\* log line, unless an exception is passing
LogPost(r, path) ==
  IF r.st.err # "" THEN r
  ELSE [node |-> r.node, st |-> write_post(r.st, path, r.node)]

\* the body of the for loop of convert_activity_list, for activities[idx]
ConvertOne(act, idx, pipeline_props, parent_path, depth, h, st) ==
  IF ~IsDict(act) THEN Failed(st, "AttributeError")
  ELSE
    LET atype == Get(act, "type", JNull)
        name == Get(act, "name", Str("unnamed_" \o ToString(idx)))
        path == parent_path \o "." \o Fmt(name) \o "(" \o Fmt(atype) \o ")"
    IN LogPost(AfterDispatch(Dispatch(act, path, atype, map_activity_type(atype),
                                      pipeline_props, depth, write_pre(st, path, act)),
                             path, pipeline_props, depth, h),
               path)

RECURSIVE WalkFrom(_, _, _, _, _, _, _)
\* the loop of convert_activity_list putting each node in front of the list
WalkOn_Prepend(r, activities, i, pipeline_props, parent_path, depth, converted) ==
  IF r.st.err # "" THEN [out |-> List(converted), st |-> r.st]
  ELSE WalkFrom(activities, i + 1, pipeline_props, parent_path, depth,
                <<r.node>> \o converted, r.st)

\* converted.append(new_act) and the next round of the loop, r being what the
\* loop body left for activities[i]; an exception ends the loop
WalkOn(r, activities, i, pipeline_props, parent_path, depth, converted) ==
  IF r.st.err # "" THEN [out |-> List(converted), st |-> r.st]
  ELSE WalkFrom(activities, i + 1, pipeline_props, parent_path, depth,
                Append(converted, r.node), r.st)

\* the for loop of convert_activity_list from position i on
WalkFrom(activities, i, pipeline_props, parent_path, depth, converted, st) ==
  IF i > Len(activities.v) THEN [out |-> List(converted), st |-> st]
  ELSE WalkOn(ConvertOne(activities.v[i], i - 1, pipeline_props, parent_path, depth,
                         Height(activities), st),
              activities, i, pipeline_props, parent_path, depth, converted)

\* convert_activity_list.  depth is the recursion depth of this invocation and
\* callerHeight the height of the list its caller works on; both are only logged.
convert_activity_list(activities, pipeline_props, parent_path, depth, callerHeight, st) ==
  LET st1 == [st EXCEPT !.calls = Append(@, [depth |-> depth, parent_path |-> parent_path,
                                             height |-> Height(activities),
                                             callerHeight |-> callerHeight])]
  IN IF ~IsList(activities) THEN [out |-> List(<<>>), st |-> st1]
     ELSE WalkFrom(activities, 1, pipeline_props, parent_path, depth, <<>>, st1)

\* the typo-correction pass over props["variables"]: a default is rewritten
\* when it holds the text ": :" (colon, space, colon), by replace("::", ":")
FixVariables(props) ==
  LET vars_ == props.v["variables"]
      fix(var_data) ==
        LET default_val == Get(var_data, "defaultValue", JNull)
        IN IF IsStr(default_val) /\ InStr(": :", default_val.v)
             THEN Put(var_data, "defaultValue", Str(replace(default_val.v, "::", ":")))
             ELSE var_data
  IN Put(props, "variables", [vars_ EXCEPT !.v = [x \in DOMAIN vars_.v |-> fix(vars_.v[x])]])

\* props["variables"].items() or var_data.get(...) raises: the variables bag
\* or one of its entries is not a dict
VariablesUnreadable(props) ==
  \/ ~IsDict(props.v["variables"])
  \/ \E x \in DOMAIN props.v["variables"].v : ~IsDict(props.v["variables"].v[x])

\* what `"variables" in props` and props.get raise for a props that is not a
\* dict: None and numbers are not iterable, a str or list holding "variables"
\* fails on the subscript, any other str or list on .get
PropsError(props) ==
  CASE IsStr(props) -> IF InStr("variables", props.v) THEN "TypeError" ELSE "AttributeError"
    [] IsList(props) -> IF \E i \in 1..Len(props.v) : Val(props.v[i]) = Str("variables")
                          THEN "TypeError" ELSE "AttributeError"
    [] OTHER -> "TypeError"

\* LOGGER.write_section("SUMMARY", "", summary): the summary document of the
\* process-wide collector as it stands at the end of the call
LogSummary(st) ==
  LET written == write_section(st, "SUMMARY", "", JNull)
  IN [written EXCEPT !.L[Len(st.L) + 1].payload = summary(st.S)]

\* the end of process_pipeline, w being what the walker left: the target
\* document is built and the summary logged, unless an exception is passing
BuildTarget(w, source_json, props, activities) ==
  IF ~Ok(w.st) THEN [ret |-> JNull, st |-> w.st, walked |-> activities, props |-> props]
  ELSE [ret |-> Obj([name |-> Get(source_json, "name", Str("ConvertedPipeline")),
                     objectId |-> Str("uuid4"),
                     properties |-> Put(props, "activities", w.out)]),
        st |-> LogSummary(w.st),
        walked |-> activities,
        props |-> Put(props, "activities", w.out)]

\* process_pipeline from the activities list on: props.get("activities", []) is
\* walked when it is a list
WalkActivities(source_json, props, activities, st0) ==
  BuildTarget(IF IsList(activities)
                THEN convert_activity_list(activities, props, "root", 1,
                                           Height(activities) + 1, st0)
                ELSE [out |-> List(<<>>), st |-> st0],
              source_json, props, activities)

\* process_pipeline from the deep copy of source_json["properties"] on
ConvertProps(source_json, copied, st0) ==
  IF ~IsDict(source_json)
    THEN [ret |-> JNull, st |-> Raise(st0, "AttributeError"), walked |-> JNull,
          props |-> JNull]
  ELSE IF ~IsDict(copied)
    THEN [ret |-> JNull, st |-> Raise(st0, PropsError(copied)), walked |-> JNull,
          props |-> copied]
  ELSE IF Has(copied, "variables") /\ VariablesUnreadable(copied)
    THEN [ret |-> JNull, st |-> Raise(st0, "AttributeError"), walked |-> JNull,
          props |-> copied]
  ELSE IF Has(copied, "variables")
    THEN WalkActivities(source_json, FixVariables(copied),
                        Get(FixVariables(copied), "activities", JNull), st0)
  ELSE WalkActivities(source_json, copied, Get(copied, "activities", JNull), st0)

\* process_pipeline in a process whose CONFIG["target_sink"] is target_sink,
\* run on the process-wide SUMMARY S and LOGGER L.
\* ret is the returned document (JNull when the call raised), walked the
\* activities list handed to the walker, props the copy of the properties as
\* the call left it.
ProcessPipelineUnder(target_sink, source_json, S, L) ==
  ConvertProps(source_json, deepcopy(Get(source_json, "properties", EmptyObj), 1),
               [S |-> S, L |-> L, err |-> "", nc |-> 2, calls |-> <<>>,
                target_sink |-> target_sink])

\* process_pipeline under the CONFIG of the source file
process_pipeline(source_json, S, L) ==
  ProcessPipelineUnder(CONFIG.target_sink, source_json, S, L)

-----------------------------------------------------------------------------
(* The documents the model converts.  A position pos is the index trail of *)
(* a node in its document; the dependsOn list of the node at pos is the    *)
(* list object <<0>> \o pos.                                               *)

Dep(n) == Obj([activity |-> Str(n), dependencyConditions |-> List(<<Str("Succeeded")>>)])
DepList(pos, deps) == [id |-> <<0>> \o pos, k |-> "list", v |-> deps]

\* an activity with every common field / with name and type only
Rich(name, type, pos, tp) ==
  Obj([name |-> Str(name), type |-> Str(type),
       dependsOn |-> DepList(pos, <<Dep("Prev")>>),
       policy |-> Obj([retry |-> Int_(3), secureInput |-> Bool(TRUE)]),
       userProperties |-> List(<<Obj([name |-> Str("owner"), value |-> Str("etl")])>>),
       typeProperties |-> tp])
Bare(name, type, tp) == Obj([name |-> Str(name), type |-> Str(type), typeProperties |-> tp])

\* typical typeProperties of the types that have a converter
HandledTp ==
  [Copy |-> Obj([source |-> Obj([type |-> Str("SqlSource"),
                                 sqlReaderQuery |-> Str("select 1")]),
                 sink |-> Obj([type |-> Str("BlobSink")]),
                 parallelCopies |-> Int_(4)]),
   Lookup |-> Obj([source |-> Obj([type |-> Str("AzureSqlSource"),
                                   storedProcedureName |-> Str("dbo.load")]),
                   firstRowOnly |-> Bool(TRUE)]),
   GetMetadata |-> Obj([fieldList |-> List(<<Str("exists")>>)]),
   Delete |-> Obj([dataset |-> Obj([referenceName |-> Str("ds")]),
                   wildcardFileName |-> Str("*.csv"),
                   enableLogging |-> Bool(TRUE)]),
   Script |-> Obj([scripts |-> List(<<Obj([text |-> Str("select 1")])>>)]),
   SetVariable |-> Obj([variableName |-> Str("v"), value |-> Str("@item().name")]),
   SqlServerStoredProcedure |->
     Obj([storedProcedureName |-> Str("dbo.load"),
          storedProcedureParameters |->
            Obj([x |-> Obj([value |-> Str("@pipeline().parameters.y"),
                            type |-> Str("String")])])]),
   ExecutePipeline |-> Obj([parameters |-> Obj([p |-> Str("1")]),
                            waitOnCompletion |-> Bool(TRUE)]),
   DatabricksNotebook |-> Obj([baseParameters |-> Obj([flag |-> Bool(TRUE)])]),
   HDInsightHive |-> Obj([scriptPath |-> Str("q.hql")]),
   HDInsightSpark |-> Obj([entryFilePath |-> Str("job.py")])]

LinkedService == Obj([referenceName |-> Str("ls1"), type |-> Str("LinkedServiceReference")])

\* activities of types that have no converter
PassthroughLeaves(name, pos) ==
  {Put(Rich(name, "Wait", pos, Obj([waitTimeInSeconds |-> Int_(5)])),
       "linkedServiceName", LinkedService),
   Put(Rich(name, "SynapseNotebook", pos, Obj([notebook |-> Str("nb")])),
       "linkedServiceName", LinkedService),
   Bare(name, "WebActivity", Obj([url |-> Str("https://example"), method |-> Str("GET")])),
   Bare(name, "InvokePipeline", Obj([pipelineId |-> Str("p1")])),
   Bare(name, "MyCustomKind", EmptyObj),
   \* no type / no name / no typeProperties
   Obj([name |-> Str(name), description |-> Str("untyped")]),
   Obj([type |-> Str("Wait"), typeProperties |-> Obj([waitTimeInSeconds |-> Int_(1)])]),
   Obj([name |-> Str(name), type |-> Str("Fail")])}

\* activities of passthrough types whose typeProperties is not what the schema says
OddLeaves(name) ==
  {Bare(name, "Wait", Str("five")), Bare(name, "Wait", JNull),
   Bare(name, "Wait", List(<<Int_(1)>>)),
   Bare(name, "Until", Obj([activities |-> Str("none")])),
   Bare(name, "Until", Obj([activities |-> List(<<JNull>>)])),
   Bare(name, "Switch", Obj([cases |-> List(<<Str("x")>>)])),
   Bare(name, "Switch", Obj([cases |-> List(<<Obj([value |-> Str("a")])>>)])),
   Bare(name, "Switch", Obj([cases |-> List(<<Obj([value |-> Str("a"),
                                                   activities |-> JNull])>>)])),
   Bare(name, "Lookup", Str("odd")),
   Bare(name, "ForEach", Obj([items |-> Str("@item().name")]))}

\* every leaf, for the top-level list
TopLeaves(name, pos) ==
  {Rich(name, t, pos, HandledTp[t]) : t \in DOMAIN HandledTp}
    \cup {Bare(name, t, HandledTp[t]) : t \in DOMAIN HandledTp}
    \cup {Obj([name |-> Str(name), type |-> Str(t)]) : t \in {"Copy", "Lookup", "Script"}}
    \cup PassthroughLeaves(name, pos) \cup OddLeaves(name)

\* the leaves used inside containers
InnerLeaves(name, pos) ==
  {Rich(name, "Copy", pos, HandledTp["Copy"]),
   Rich(name, "Delete", pos, HandledTp["Delete"]),
   Bare(name, "ExecutePipeline", HandledTp["ExecutePipeline"]),
   Put(Rich(name, "Wait", pos, Obj([waitTimeInSeconds |-> Int_(5)])),
       "linkedServiceName", LinkedService)}

RECURSIVE Trees(_, _, _)
\* the activities named name at position pos with at most d levels below them
Trees(d, name, pos) ==
  IF d = 0 THEN InnerLeaves(name, pos)
  ELSE
    LET one(p) == {List(<<x>>) : x \in Trees(d - 1, "A", p \o <<1>>)}
        bodies(p) == {List(<<>>)} \cup one(p)
        twin(p) == {List(<<x>>) : x \in {Rich("A", "Copy", p \o <<1>>, HandledTp["Copy"])}}
    IN InnerLeaves(name, pos)
         \cup {Rich(name, "ForEach", pos,
                    Obj([items |-> Str("@activity('L').output.value"), activities |-> b]))
               : b \in bodies(pos \o <<3>>)}
         \cup {Bare(name, "Until", Obj([expression |-> Str("=now"), activities |-> b]))
               : b \in one(pos \o <<3>>)}
         \cup {Bare(name, "IfCondition", Obj([ifTrueActivities |-> b]))
               : b \in one(pos \o <<1>>)}
         \cup {Rich(name, "IfCondition", pos,
                    Obj([ifTrueActivities |-> b, ifFalseActivities |-> f]))
               : b \in twin(pos \o <<1>>), f \in one(pos \o <<2>>)}
         \cup {Bare(name, "Switch",
                    Obj([on |-> Str("@item().name"),
                         cases |-> List(<<Obj([value |-> Str("a"), activities |-> b])>>),
                         defaultActivities |-> f]))
               : b \in one(pos \o <<4, 1>>), f \in twin(pos \o <<5>>)}

\* the top-level activity lists
TopLists ==
  {List(<<>>)}
    \cup {List(<<x>>) : x \in TopLeaves("A", <<1>>) \cup Trees(MaxDepth, "A", <<1>>)}
    \cup {List(<<x, y>>) : x \in InnerLeaves("A", <<1>>),
                           y \in {Rich("B", "Lookup", <<2>>, HandledTp["Lookup"]),
                                  Bare("B", "ForEach",
                                       Obj([activities |->
                                              List(<<Rich("A", "Copy", <<2, 3, 1>>,
                                                          HandledTp["Copy"])>>)]))}}

Pipeline(acts) == Obj([name |-> Str("pl"), properties |-> Obj([activities |-> acts])])

\* the documents handed to process_pipeline
Docs ==
  {Pipeline(acts) : acts \in TopLists}
    \cup {Obj([name |-> Str("pl")]),
          Obj([properties |-> Obj([activities |-> Str("none")])]),
          Obj([name |-> Str("pl"),
               properties |->
                 Obj([parameters |-> Obj([blob_path |-> Obj([type |-> Str("string")])]),
                      variables |-> Obj([t |-> Obj([type |-> Str("String"),
                                                    defaultValue |-> Str("a: :b")]),
                                         u |-> Obj([type |-> Str("String"),
                                                    defaultValue |-> Str("0.12::00:00")])]),
                      activities |->
                        List(<<Rich("A", "Copy", <<1>>, HandledTp["Copy"])>>)])])}

\* the documents a process converts one after the other
RunDocs ==
  {Pipeline(List(<<x>>)) :
     x \in {Rich("A", "Copy", <<1>>, HandledTp["Copy"]),
            Rich("A", "Lookup", <<1>>, HandledTp["Lookup"]),
            Bare("A", "ExecutePipeline", HandledTp["ExecutePipeline"]),
            Rich("B", "Delete", <<1>>, HandledTp["Delete"]),
            Bare("B", "SetVariable", HandledTp["SetVariable"]),
            Bare("B", "WebActivity", EmptyObj),
            Bare("B", "SynapseNotebook", EmptyObj),
            Bare("A", "Switch", Obj([cases |-> List(<<Str("x")>>)])),
            Bare("C", "ForEach",
                 Obj([activities |->
                        List(<<Rich("A", "Copy", <<1, 3, 1>>, HandledTp["Copy"])>>)])),
            Bare("C", "IfCondition",
                 Obj([ifTrueActivities |->
                        List(<<Bare("B", "Wait", EmptyObj)>>)]))}}
    \cup {Pipeline(List(<<>>)), Obj([name |-> Str("pl")])}

-----------------------------------------------------------------------------
(* The state machine *)

Init ==
  /\ source = JNull
  /\ walkIn = JNull
  /\ target = JNull
  /\ SUMMARY = NewSummaryCollector
  /\ LOGGER = <<>>
  /\ calls = <<>>
  /\ callNo = 0
  /\ pc = "idle"
  /\ call = [fn |-> "none"]
  /\ poll = [pc |-> "idle"]
  /\ load = [pc |-> "idle"]

\* the state a process_pipeline(doc) call leaves, r being its outcome
Leave(doc, r) ==
  /\ source' = Sync(doc, Objects(r.props))
  /\ walkIn' = Sync(r.walked, Objects(r.props))
  /\ target' = r.ret
  /\ SUMMARY' = r.st.S
  /\ LOGGER' = r.st.L
  /\ calls' = r.st.calls
  /\ callNo' = callNo + 1
  /\ pc' = IF Ok(r.st) THEN "returned" ELSE "raised"
  /\ call' = [fn |-> "process_pipeline", source_json |-> doc, activities |-> r.walked]
  /\ UNCHANGED <<poll, load>>

\* one process_pipeline(doc) call, from entry to return or raise
Convert(doc) == Leave(doc, process_pipeline(doc, SUMMARY, LOGGER))

\* the conversion of one document in a fresh process
ProcessPipeline ==
  /\ callNo = 0
  /\ \E doc \in Docs : Convert(doc)

\* a further conversion in the same process
ProcessNext ==
  /\ callNo < MaxCalls
  /\ pc \in {"idle", "returned", "raised"}
  /\ \E doc \in RunDocs : Convert(doc)

RECURSIVE AppendTo(_, _, _)
\* list.append(entry) on the list object id, seen through every reference in j
AppendTo(j, id, entry) ==
  CASE j.k = "obj" -> [j EXCEPT !.v = [x \in DOMAIN j.v |-> AppendTo(j.v[x], id, entry)]]
    [] j.k = "list" ->
         LET items == [i \in 1..Len(j.v) |-> AppendTo(j.v[i], id, entry)]
         IN IF "id" \in DOMAIN j
              THEN [id |-> j.id, k |-> "list",
                    v |-> IF j.id = id THEN Append(items, entry) ELSE items]
              ELSE [k |-> "list", v |-> items]
    [] OTHER -> j

\* the caller appends an entry to a dependsOn list of the returned tree
MutateOutput ==
  /\ pc = "returned"
  /\ callNo = 1
  /\ \E id \in Ids(target) :
       /\ target' = AppendTo(target, id, Dep("Extra"))
       /\ walkIn' = AppendTo(walkIn, id, Dep("Extra"))
       /\ source' = AppendTo(source, id, Dep("Extra"))
  /\ pc' = "mutated_out"
  /\ UNCHANGED <<SUMMARY, LOGGER, calls, callNo, call, poll, load>>

\* the caller appends an entry to a dependsOn list of the tree that was walked
MutateInput ==
  /\ pc = "returned"
  /\ callNo = 1
  /\ IsList(walkIn)
  /\ \E id \in Ids(walkIn) :
       /\ target' = AppendTo(target, id, Dep("Extra"))
       /\ walkIn' = AppendTo(walkIn, id, Dep("Extra"))
       /\ source' = AppendTo(source, id, Dep("Extra"))
  /\ pc' = "mutated_in"
  /\ UNCHANGED <<SUMMARY, LOGGER, calls, callNo, call, poll, load>>

Next == ProcessPipeline \/ MutateOutput \/ MutateInput

Spec == Init /\ [][Next]_vars

NextRuns == ProcessNext

SpecRuns == Init /\ [][NextRuns]_vars

-----------------------------------------------------------------------------
(* Direct calls of the helpers and mappers, each on arguments drawn from a *)
(* bounded set                                                             *)

\* what a direct call leaves: only `call` changes
DirectCall(c) ==
  /\ call.fn = "none"
  /\ call' = c
  /\ UNCHANGED <<source, walkIn, target, SUMMARY, LOGGER, calls, callNo, pc, poll, load>>

\* linked-service type names: every key of the table, and names that are no key
ConnectorNames ==
  {ADF_TO_FABRIC_CONNECTOR_TYPE[i][1] : i \in 1..Len(ADF_TO_FABRIC_CONNECTOR_TYPE)}
    \cup {"sqlserver", "ORACLE", "azureblobfs", "mongodbv2", "AzureDataLakeStoreGEN2",
          "OracleServiceCLOUD", "MONGODBV2", "Sql", "Azure", "Blob", "Db", "Server",
          "Lake", "sql", "MySqlServerX", "MyOracleDb", "SftpV2", "xOdbc", "Kafka",
          "Hive", "xyz", "", " ", "Oracle "}

\* ConnectorMapping.map_connector_type(adf_type)
MapConnectorType ==
  \E adf_type \in {JNull} \cup {Str(x) : x \in ConnectorNames} :
    DirectCall([fn |-> "map_connector_type", adf_type |-> adf_type,
             ret |-> map_connector_type(adf_type)])

\* activity type names: every key of the activity table, and names that are no key
ActivityNames ==
  DOMAIN ADF_TO_FABRIC_ACTIVITY_TYPE
    \cup {"MyCustomKind", "copy", "SynapseNotebookV2", "ExecuteDataFlow", "Unknown", ""}

\* ConnectorMapping.map_activity_type(adf_type)
MapActivityType ==
  \E adf_type \in {JNull} \cup {Str(x) : x \in ActivityNames} :
    DirectCall([fn |-> "map_activity_type", adf_type |-> adf_type,
                ret |-> map_activity_type(adf_type)])

\* parameter names a pipeline may declare
ParameterNames ==
  {"containerName", "blob_container", "destinationPath", "blob_path", "fileName",
   "file_name", "runDate"}

\* properties of a pipeline: none, without parameters, with parameters: null,
\* and with every set of declared parameters
PipelineProps ==
  {JNull, EmptyObj, Obj([parameters |-> JNull]), Obj([activities |-> List(<<>>)])}
    \cup {Obj([parameters |-> Obj([x \in names |-> Obj([type |-> Str("string")])])])
          : names \in SUBSET ParameterNames}

\* select_param_name(pipeline_props, key)
SelectParamName ==
  \E pipeline_props \in PipelineProps,
     key \in DOMAIN CONFIG.param_candidates \cup {"sink_table"} :
    DirectCall([fn |-> "select_param_name", pipeline_props |-> pipeline_props,
                key |-> key, ret |-> select_param_name(pipeline_props, key)])

\* scalar values as a pipeline document gives them
Scalars ==
  {Str(x) : x \in {"plainstring", "@pipeline().parameters.x", "=now", "  padded\t",
                    " @item().name ", "\n=concat('a','b')", "[object Object]",
                    " [object Object] ", "a@b", "x=1", "", "   "}}
    \cup {JNull, Int_(0), Int_(5), Bool(TRUE), Bool(FALSE)}

\* the values a parameter or property holds: scalars, value wrappers around
\* them (also nested), dicts without "value", and lists
Values ==
  Scalars
    \cup {Obj([value |-> x, type |-> Str("String")]) : x \in Scalars}
    \cup {Obj([value |-> x]) : x \in Scalars}
    \cup {Obj([value |-> Obj([value |-> x, type |-> Str("Expression")]),
                type |-> Str("String")]) : x \in Scalars}
    \cup {EmptyObj, Obj([type |-> Str("Expression")]),
          Obj([name |-> Str("p"), flag |-> Bool(TRUE)]),
          List(<<>>), List(<<Int_(1), Int_(2)>>), List(<<Str("@x")>>),
          Obj([value |-> List(<<Str("a")>>)]),
          Obj([value |-> Obj([content |-> Str("@x")])])}

\* get_flat_value(val)
GetFlatValue ==
  \E val \in Values :
    DirectCall([fn |-> "get_flat_value", val |-> val, ret |-> get_flat_value(val)])

\* format_generic_value(val)
FormatGenericValue ==
  \E val \in Values :
    DirectCall([fn |-> "format_generic_value", val |-> val,
                ret |-> format_generic_value(val)])

NextHelpers ==
  \/ MapConnectorType
  \/ MapActivityType
  \/ SelectParamName
  \/ GetFlatValue
  \/ FormatGenericValue

SpecHelpers == Init /\ [][NextHelpers]_vars

-----------------------------------------------------------------------------
(* Conversions of single activities, one per process *)

\* a pipeline of one activity
OneActivity(act) == Pipeline(List(<<act>>))

\* SqlServerStoredProcedure activities: one parameter holding each value, two
\* parameters, no parameters, and a parameters field that is not a dict
StoredProcActivities ==
  {Bare("A", "SqlServerStoredProcedure",
        Obj([storedProcedureName |-> Str("dbo.load"),
             storedProcedureParameters |-> Obj([x |-> val])])) : val \in Values}
    \cup {Rich("A", "SqlServerStoredProcedure", <<1>>,
                Obj([storedProcedureName |-> Obj([value |-> Str(" dbo.load ")]),
                     storedProcedureParameters |->
                       Obj([x |-> Str("@pipeline().parameters.y"),
                            y |-> Obj([value |-> Int_(5), type |-> Str("Int32")])])])),
           Bare("A", "SqlServerStoredProcedure",
                Obj([storedProcedureName |-> Str("dbo.load")])),
           Bare("A", "SqlServerStoredProcedure",
                Obj([storedProcedureName |-> Str("dbo.load"),
                     storedProcedureParameters |-> JNull]))}

\* process_pipeline on a pipeline holding one stored-procedure activity
ConvertStoredProc ==
  /\ callNo = 0
  /\ \E act \in StoredProcActivities : Convert(OneActivity(act))

\* the values CONFIG["target_sink"] takes (the comment on the CONFIG entry)
SinkChoices == {"lakehouse", "blob", "blobfs"}

\* the five optional top-level flags of a Copy activity, with a value each
CopyFlagValues ==
  [enableStaging |-> Bool(TRUE), enableSkipIncompatibleRow |-> Bool(TRUE),
   validateDataConsistency |-> Bool(FALSE), parallelCopies |-> Int_(4),
   dataIntegrationUnits |-> Int_(8)]

\* Copy activities from delimited text to blob with every choice of optional
\* flags, and Copy activities of other source and sink types
CopyActivities ==
  {Bare("A", "Copy",
        Obj([x \in {"source", "sink"} \cup flags |->
               CASE x = "source" -> Obj([type |-> Str("DelimitedTextSource")])
                 [] x = "sink" -> Obj([type |-> Str("BlobSink")])
                 [] OTHER -> CopyFlagValues[x]])) : flags \in SUBSET DOMAIN CopyFlagValues}
    \cup {Bare("A", "Copy",
                Obj([source |-> Obj([type |-> Str("DelimitedTextSource")]),
                     sink |-> Obj([type |-> Str("BlobSink")]),
                     enableStaging |-> Bool(FALSE)])),
           Rich("A", "Copy", <<1>>, HandledTp["Copy"]),
           Bare("A", "Copy",
                Obj([source |-> Obj([type |-> Str("OracleSource")]),
                     sink |-> Obj([type |-> Str("DelimitedTextSink")]),
                     translator |-> Obj([type |-> Str("TabularTranslator")])])),
           Bare("A", "Copy", EmptyObj)}

\* pipelines of one Copy activity; the delimited-text-to-blob one also in
\* pipelines that declare parameters for the sink folder
CopyDocs ==
  {OneActivity(act) : act \in CopyActivities}
    \cup {Obj([name |-> Str("pl"),
                properties |->
                  Obj([parameters |-> Obj([x \in declared |-> Obj([type |-> Str("string")])]),
                       activities |->
                         List(<<Bare("A", "Copy",
                                     Obj([source |-> Obj([type |-> Str("DelimitedTextSource")]),
                                          sink |-> Obj([type |-> Str("BlobSink")])]))>>)])]) :
             declared \in {{"blob_path"}, {"blob_path", "destinationPath"},
                           {"blob_container", "file_name"}}}

\* process_pipeline on a pipeline holding one Copy activity, in a process
\* configured for one of the sink choices
ConvertCopy ==
  /\ callNo = 0
  /\ \E sink_target \in SinkChoices, doc \in CopyDocs :
       Leave(doc, ProcessPipelineUnder(sink_target, doc, SUMMARY, LOGGER))

\* the values a Lookup source gives for each of its three query fields
LookupFieldValues ==
  [sqlReaderQuery |-> {Str("select 1"), JNull,
                       Obj([value |-> Str("@concat('select ', '1')"),
                            type |-> Str("Expression")])},
   storedProcedureName |-> {Str("dbo.load"), Obj([value |-> Str(" dbo.load ")])},
   query |-> {Str("select 2"), Str("=q")}]

\* the query fields of a Lookup source: any of the three, each with a value
LookupQueryFields ==
  UNION {{f \in [fields -> UNION {LookupFieldValues[x] : x \in fields}] :
            \A x \in fields : f[x] \in LookupFieldValues[x]} :
         fields \in SUBSET DOMAIN LookupFieldValues}

\* Lookup activities whose source holds any of the three query fields, and
\* Lookup activities without a source
LookupActivities ==
  {Bare("A", "Lookup",
        Obj([source |-> Obj([x \in {"type"} \cup DOMAIN f |->
                               IF x = "type" THEN Str("AzureSqlSource") ELSE f[x]]),
             firstRowOnly |-> Bool(TRUE)])) : f \in LookupQueryFields}
    \cup {Rich("A", "Lookup", <<1>>, HandledTp["Lookup"]),
           Bare("A", "Lookup", EmptyObj),
           Bare("A", "Lookup", Obj([source |-> JNull, queryTimeout |-> Str("00:10:00")]))}

\* process_pipeline on a pipeline holding one Lookup activity
ConvertLookup ==
  /\ callNo = 0
  /\ \E act \in LookupActivities : Convert(OneActivity(act))

\* activities of the five HDInsight types with typeProperties of several
\* contents, one of them holding an hdiActivityType key of its own
HDInsightActivities ==
  {Bare("A", type, tp) :
     type \in HDInsightTypes,
     tp \in {EmptyObj, JNull,
             Obj([scriptPath |-> Str("q.hql")]),
             Obj([className |-> Str("Main"),
                  arguments |-> List(<<Str("a"), Str("@item().name")>>),
                  getDebugInfo |-> Str("Failure")]),
             Obj([hdiActivityType |-> Str("Custom"), scriptPath |-> Str("q.hql")]),
             Obj([hdiActivityType |-> JNull])}}
    \cup {Rich("A", "HDInsightSpark", <<1>>, HandledTp["HDInsightSpark"])}

\* process_pipeline on a pipeline holding one HDInsight activity
ConvertHDInsight ==
  /\ callNo = 0
  /\ \E act \in HDInsightActivities : Convert(OneActivity(act))

NextConverters ==
  \/ ConvertStoredProc
  \/ ConvertCopy
  \/ ConvertLookup
  \/ ConvertHDInsight

SpecConverters == Init /\ [][NextConverters]_vars

-----------------------------------------------------------------------------
(* Conversions of whole documents, one per process *)

\* what a document holds under "properties" when it holds no or no usable
\* activities: a bag without activities, with an empty list, or with
\* activities that is not a list; null; and values that are not a bag at all
IncompleteProperties ==
  {EmptyObj, JNull,
   Obj([description |-> Str("d")]),
   Obj([parameters |-> Obj([blob_path |-> Obj([type |-> Str("string")])]),
        annotations |-> List(<<>>)]),
   Str("none"), Str("variables"), List(<<>>), List(<<Str("variables")>>), Int_(0)}
    \cup {Obj([activities |-> acts]) :
            acts \in {List(<<>>), JNull, Str("none"), Int_(5), Bool(TRUE), EmptyObj,
                      Obj([name |-> Str("A"), type |-> Str("Wait")])}}
    \cup {Obj([activities |-> acts, description |-> Str("d"), variables |-> vars_]) :
            acts \in {List(<<>>), JNull, Str("none")},
            vars_ \in {EmptyObj, JNull, List(<<>>),
                       Obj([t |-> Obj([type |-> Str("String")])]),
                       Obj([t |-> JNull]), Obj([t |-> Str("x")])}}

\* documents with a name or without, with properties or without
IncompleteDocs ==
  {Obj([name |-> Str("pl")]), EmptyObj, Obj([description |-> Str("d")])}
    \cup {Obj([name |-> Str("pl"), properties |-> props]) : props \in IncompleteProperties}
    \cup {Obj([properties |-> props]) : props \in IncompleteProperties}

\* process_pipeline on a structurally incomplete document
ConvertIncomplete ==
  /\ callNo = 0
  /\ \E doc \in IncompleteDocs : Convert(doc)

\* default values of declared variables: strings with a double colon, with
\* the text ": :", with both, with neither, and values that are not strings
VariableDefaults ==
  {Str(x) : x \in {"0.12::00:00", "a: :b", "a: :b::c", "a::b", "::", ": :", ": ::",
                    "x::y::z: :", "a:b", "00:10:00", "", "plain"}}
    \cup {JNull, Int_(5), Bool(FALSE), List(<<Str("a::b")>>)}

\* documents that declare one variable, with or without a default, or two
VariableDocs ==
  {Obj([name |-> Str("pl"),
        properties |-> Obj([variables |-> Obj([t |-> Obj([type |-> Str("String"),
                                                          defaultValue |-> d])]),
                            activities |-> List(<<>>)])]) : d \in VariableDefaults}
    \cup {Obj([name |-> Str("pl"),
                properties |->
                  Obj([variables |-> Obj([t |-> Obj([type |-> Str("String"),
                                                     defaultValue |-> d]),
                                          u |-> Obj([type |-> Str("String"),
                                                     defaultValue |-> e]),
                                          w |-> Obj([type |-> Str("Boolean")])]),
                       activities |->
                         List(<<Bare("A", "SetVariable",
                                     Obj([variableName |-> Str("t"),
                                          value |-> Str("a::b")]))>>)])]) :
             d \in VariableDefaults,
             e \in {Str("a: :b::c"), Str("a::b"), Str("plain")}}

\* process_pipeline on a document that declares variables
ConvertVariables ==
  /\ callNo = 0
  /\ \E doc \in VariableDocs : Convert(doc)

\* lists of three sibling activities A, B, C at position pos: B depends on A,
\* C on A and B; each of a handled or a passthrough type
SiblingLists(pos) ==
  {List(<<Put(Bare("A", first, IF first \in DOMAIN HandledTp
                                 THEN HandledTp[first] ELSE EmptyObj),
              "dependsOn", DepList(pos \o <<1>>, <<>>)),
          Put(Bare("B", second, IF second \in DOMAIN HandledTp
                                  THEN HandledTp[second] ELSE EmptyObj),
              "dependsOn", DepList(pos \o <<2>>, <<Dep("A")>>)),
          Put(Bare("C", third, IF third \in DOMAIN HandledTp
                                 THEN HandledTp[third] ELSE EmptyObj),
              "dependsOn", DepList(pos \o <<3>>, <<Dep("A"), Dep("B")>>))>>) :
     first \in {"Lookup", "Wait", "SetVariable"},
     second \in {"Copy", "Delete", "SynapseNotebook"},
     third \in {"Wait", "SqlServerStoredProcedure"}}

\* documents whose top-level list, ForEach body, IfCondition branches or
\* Switch cases hold three siblings
SiblingDocs ==
  {Pipeline(sibs) : sibs \in SiblingLists(<<1>>)}
    \cup {Pipeline(List(<<Bare("F", "ForEach", Obj([items |-> Str("@x"),
                                                    activities |-> sibs])),
                          Put(Bare("G", "Wait", EmptyObj), "dependsOn",
                              DepList(<<2>>, <<Dep("F")>>))>>)) :
             sibs \in SiblingLists(<<1, 3>>)}
    \cup {Pipeline(List(<<Bare("I", "IfCondition",
                               Obj([ifTrueActivities |-> sibs,
                                    ifFalseActivities |->
                                      List(<<Bare("A", "Wait", EmptyObj)>>)]))>>)) :
             sibs \in SiblingLists(<<1, 1>>)}
    \cup {Pipeline(List(<<Bare("S", "Switch",
                               Obj([cases |->
                                      List(<<Obj([value |-> Str("a"), activities |-> sibs]),
                                             Obj([value |-> Str("b")])>>),
                                    defaultActivities |->
                                      List(<<Bare("A", "Fail", EmptyObj),
                                             Put(Bare("B", "Wait", EmptyObj), "dependsOn",
                                                 DepList(<<1, 4, 2>>, <<Dep("A")>>))>>)]))>>)) :
             sibs \in SiblingLists(<<1, 5, 1>>)}

\* process_pipeline on a document holding sibling activities
ConvertSiblings ==
  /\ callNo = 0
  /\ \E doc \in SiblingDocs : Convert(doc)

\* j as the tracked object id: what is written to it in place is seen through
\* every reference to it
Tracked(id, j) == [id |-> id, k |-> j.k, v |-> j.v]

\* a passthrough activity with a linked service, every dict of it tracked
TrackedWait(n) ==
  Tracked(<<9, n>>,
          Obj([name |-> Str("W"), type |-> Str("Wait"),
               linkedServiceName |-> Tracked(<<9, n + 1>>, LinkedService),
               typeProperties |->
                 Tracked(<<9, n + 2>>, Obj([waitTimeInSeconds |-> Int_(5)]))]))

\* the activities of the tracked documents: passthrough and handled types,
\* containers of every kind, and an entry that is no activity
TrackedActivities ==
  {TrackedWait(10),
   Tracked(<<9, 5>>,
           Obj([name |-> Str("I"), type |-> Str("IfCondition"),
                typeProperties |->
                  Tracked(<<9, 6>>,
                          Obj([ifTrueActivities |->
                                 Tracked(<<9, 7>>, List(<<TrackedWait(10)>>)),
                               ifFalseActivities |->
                                 Tracked(<<9, 8>>, List(<<TrackedWait(20)>>))]))])),
   Tracked(<<9, 5>>,
           Obj([name |-> Str("S"), type |-> Str("Switch"),
                typeProperties |->
                  Tracked(<<9, 6>>,
                          Obj([cases |->
                                 Tracked(<<9, 7>>,
                                         List(<<Tracked(<<9, 8>>,
                                                  Obj([value |-> Str("a"),
                                                       activities |->
                                                         Tracked(<<9, 9>>,
                                                           List(<<TrackedWait(10)>>))]))>>)),
                               defaultActivities |->
                                 Tracked(<<9, 4>>, List(<<TrackedWait(20)>>))]))])),
   Tracked(<<9, 5>>,
           Obj([name |-> Str("F"), type |-> Str("ForEach"),
                typeProperties |->
                  Tracked(<<9, 6>>,
                          Obj([items |-> Tracked(<<9, 8>>, Obj([value |-> Str("@x")])),
                               activities |->
                                 Tracked(<<9, 7>>, List(<<TrackedWait(10)>>))]))])),
   Tracked(<<9, 5>>,
           Obj([name |-> Str("V"), type |-> Str("SetVariable"),
                typeProperties |->
                  Tracked(<<9, 6>>, Obj([variableName |-> Str("t"),
                                         value |-> Str("a::b")]))])),
   Tracked(<<9, 5>>,
           Obj([name |-> Str("Q"), type |-> Str("Script"),
                typeProperties |->
                  Tracked(<<9, 6>>,
                          Obj([scripts |->
                                 Tracked(<<9, 7>>,
                                         List(<<Tracked(<<9, 8>>,
                                                  Obj([text |-> Str("select 1"),
                                                       type |-> Str("Query")]))>>))]))])),
   Str("no activity")}

\* documents whose properties, variables and activities are tracked objects;
\* the conversion of the longer lists fails at the last entry
TrackedDocs ==
  {Obj([name |-> Str("pl"),
        properties |->
          Tracked(<<9, 1>>,
                  Obj([variables |->
                         Tracked(<<9, 2>>,
                                 Obj([t |-> Tracked(<<9, 3>>,
                                              Obj([type |-> Str("String"),
                                                   defaultValue |-> d]))])),
                       activities |-> Tracked(<<9, 30>>, List(<<a>> \o rest))]))]) :
     d \in {Str("a: :b::c"), Str("plain")},
     a \in TrackedActivities,
     rest \in {<<>>, <<TrackedWait(40)>>, <<JNull>>}}

\* process_pipeline on a document of tracked objects
ConvertTracked ==
  /\ callNo = 0
  /\ \E doc \in TrackedDocs : Convert(doc)

NextDocuments ==
  \/ ConvertIncomplete
  \/ ConvertVariables
  \/ ConvertSiblings
  \/ ConvertTracked

SpecDocuments == Init /\ [][NextDocuments]_vars

-----------------------------------------------------------------------------
(* runfabpiline.py: poll_pipeline_status, one round of its loop per step,  *)
(* and the end of trigger_fabric_pipeline that reads its result            *)

\* int(delay * backoff) for a delay >= 0, backoff being the fraction b[1] / b[2]
NextDelay(delay, b) == (delay * b[1]) \div b[2]

\* the statuses that end the loop
TerminalStatuses == {"SUCCEEDED", "FAILED", "CANCELLED"}

\* status = (last.get("status") or "").upper()
StatusOf(last) ==
  IF Truthy(Get(last, "status", JNull)) THEN upper(Get(last, "status", JNull).v) ELSE ""

\* what the except branch of the loop leaves in last
PollFailure ==
  Obj([status |-> Str("UNKNOWN"), error |-> Str("HTTP GET failed"), http_status |-> JNull])

\* what one round may find in last: the body of a response, or PollFailure
\* when _http_get raised FabricPipelineError
PollResponses ==
  {Obj([status |-> Str(x)]) : x \in {"Running", "NotStarted", "Succeeded", "failed",
                                     "Cancelled"}}
    \cup {EmptyObj, Obj([status |-> JNull]), PollFailure}

\* the arguments of the direct calls: wait budgets, first delays and backoff
\* factors (1/2, 1, 3/2, 2)
MaxWaits == {-1, 0, 4, 7}
FirstDelays == {1, 2, 5}
Backoffs == {<<1, 2>>, <<1, 1>>, <<3, 2>>, <<2, 1>>}

\* the defaults of the signature, with which trigger_fabric_pipeline calls
PollDefaults == [max_wait_secs |-> 600, first_delay |-> 5, backoff |-> <<3, 2>>]

\* poll_pipeline_status up to the loop: _validate_guid raises ValueError for
\* an id that is no GUID
EnterPoll(caller, args, guids_valid) ==
  /\ poll.pc = "idle"
  /\ poll' = IF guids_valid
               THEN [pc |-> "polling", caller |-> caller,
                     max_wait_secs |-> args.max_wait_secs,
                     first_delay |-> args.first_delay, backoff |-> args.backoff,
                     waited |-> 0, delay |-> args.first_delay, last |-> EmptyObj]
               ELSE [pc |-> "raised", caller |-> caller, exc |-> "ValueError"]
  /\ UNCHANGED <<source, walkIn, target, SUMMARY, LOGGER, calls, callNo, pc, call, load>>

\* a direct call of poll_pipeline_status
PollDirect ==
  \E m \in MaxWaits, f \in FirstDelays, b \in Backoffs, g \in BOOLEAN :
    EnterPoll("direct", [max_wait_secs |-> m, first_delay |-> f, backoff |-> b], g)

\* trigger_fabric_pipeline at its call of poll_pipeline_status: trigger_pipeline
\* has validated the same ids
PollFromTrigger == EnterPoll("trigger_fabric_pipeline", PollDefaults, TRUE)

\* one round of the while loop: the poll, then break on a terminal status,
\* else sleep, waited += delay, delay = int(delay * backoff)
PollRound ==
  /\ poll.pc = "polling"
  /\ poll.waited <= poll.max_wait_secs
  /\ \E last \in PollResponses :
       poll' = IF StatusOf(last) \in TerminalStatuses
                 THEN [poll EXCEPT !.last = last, !.pc = "left"]
                 ELSE [poll EXCEPT !.last = last,
                                   !.waited = @ + poll.delay,
                                   !.delay = NextDelay(@, poll.backoff)]
  /\ UNCHANGED <<source, walkIn, target, SUMMARY, LOGGER, calls, callNo, pc, call, load>>

\* the details built from last; `if not last` puts TIMEOUT in an empty last
PollDetails(last_) ==
  LET last == IF Truthy(last_) THEN last_ ELSE Obj([status |-> Str("TIMEOUT")])
  IN Obj([run_id |-> Str("run"),
          status |-> Get(last, "status", JNull),
          startedBy |-> Get(last, "startedBy", JNull),
          startTime |-> Get(last, "startTime", JNull),
          endTime |-> Get(last, "endTime", JNull),
          error |-> IF Truthy(Get(last, "error", JNull)) THEN last.v["error"]
                    ELSE IF Truthy(Get(last, "message", JNull)) THEN last.v["message"]
                    ELSE Get(last, "failureMessage", JNull),
          raw |-> last])

\* the loop is left, by break or because waited > max_wait_secs, and the
\* details are returned
PollReturn ==
  /\ \/ poll.pc = "left"
     \/ poll.pc = "polling" /\ poll.waited > poll.max_wait_secs
  /\ poll' = [pc |-> "returned", caller |-> poll.caller, waited |-> poll.waited,
              max_wait_secs |-> poll.max_wait_secs, last |-> poll.last,
              details |-> PollDetails(poll.last)]
  /\ UNCHANGED <<source, walkIn, target, SUMMARY, LOGGER, calls, callNo, pc, call, load>>

\* trigger_fabric_pipeline after the poll: status = (result.get("status") or
\* "").upper() is reported with the details
TriggerReturn ==
  /\ poll.pc = "returned"
  /\ poll.caller = "trigger_fabric_pipeline"
  /\ poll' = [pc |-> "reported", caller |-> poll.caller, waited |-> poll.waited,
              max_wait_secs |-> poll.max_wait_secs, last |-> poll.last,
              details |-> poll.details, status |-> StatusOf(poll.details)]
  /\ UNCHANGED <<source, walkIn, target, SUMMARY, LOGGER, calls, callNo, pc, call, load>>

\* the steps of a call that has been made
PollStep == PollRound \/ PollReturn \/ TriggerReturn

NextPoll == PollDirect \/ PollFromTrigger \/ PollStep

SpecPoll == Init /\ [][NextPoll]_vars

\* the thread that runs the call is scheduled as long as it has a step to take
SpecPollFair == SpecPoll /\ WF_vars(PollStep)

-----------------------------------------------------------------------------
(* load_data.py: DataLoader.load_table, one connection use per two steps   *)
(* (the statement starts, the statement ends), and load_tables_parallel,   *)
(* whose pool threads run the load_table calls while the main thread       *)
(* handles the results                                                     *)

\* max_retries of load_table
max_retries == 3

\* the threads of the pool of load_tables_parallel
MaxWorkers == 2

\* the (schema, table) pairs handed to the loader
LoadTables == <<"dbo.a", "dbo.b", "dbo.c">>

\* conn of one load_table call, and self.source_conn
OwnConnection(table) == "conn opened for " \o table
SourceConnection == "self.source_conn"

\* a mutant of the wait between attempts: twice the attempt number
wait_time_Linear(attempt) == 2 * attempt

\* wait_time = 2 ** attempt
wait_time(attempt) == 2 ^ attempt

\* a load_table(schema, table) call at its first statement.  on is the
\* connection a statement of the call is running on, copies the COPY INTO
\* statements issued, slept the time.sleep calls, copy_ok whether COPY INTO
\* has succeeded, ret the returned dict.
NewCall(table) ==
  [pc |-> "connect", table |-> table, attempt |-> 0, on |-> "none", copies |-> 0,
   slept |-> <<>>, copy_ok |-> FALSE,
   ret |-> [status |-> "none", table |-> table, row_count |-> 0, error |-> ""]]

\* a pool thread that has not been given a call
FreeThread == [NewCall("") EXCEPT !.pc = "free"]

\* the steps of load_table that use a connection
ConnectionSteps ==
  {"create_schema", "drop_table", "get_table_schema", "create_table", "copy", "count",
   "commit", "close"}

\* the connection the step of call c runs on: get_table_schema works on
\* self.source_conn, everything else on conn
ConnectionAt(c) ==
  IF c.pc = "get_table_schema" THEN SourceConnection ELSE OwnConnection(c.table)

\* the step at c.pc is over and the call goes on at step next
GoOn(c, next) == [c EXCEPT !.pc = next, !.on = "none"]

\* the step at c.pc raised: `except Exception as e` returns the failure
Fails(c) ==
  [c EXCEPT !.pc = "returned", !.on = "none",
            !.ret = [status |-> "failed", table |-> c.table, row_count |-> 0,
                     error |-> "error in " \o c.pc]]

\* the except branch of the retry loop: sleep and go round again, or raise
\* when this was the last attempt
CopyFailed(c) ==
  IF c.attempt < max_retries - 1
    THEN [c EXCEPT !.on = "none", !.copies = @ + 1, !.attempt = @ + 1,
                   !.slept = Append(@, wait_time(c.attempt))]
    ELSE Fails([c EXCEPT !.copies = @ + 1])

\* what call c may look like after its next step; source_conn tells whether
\* self.source_conn is connected
CallSteps(c, source_conn) ==
  CASE c.pc = "connect" -> {GoOn(c, "create_schema"), Fails(c)}
    [] c.pc = "get_table_schema" /\ ~source_conn -> {GoOn(c, "create_table")}
    [] c.pc \in ConnectionSteps /\ c.on = "none" -> {[c EXCEPT !.on = ConnectionAt(c)]}
    [] c.pc = "create_schema" -> {GoOn(c, "drop_table"), Fails(c)}
    [] c.pc = "drop_table" -> {GoOn(c, "get_table_schema"), Fails(c)}
    [] c.pc = "get_table_schema" -> {GoOn(c, "create_table"), GoOn(c, "copy")}
    [] c.pc = "create_table" -> {GoOn(c, "copy"), Fails(c)}
    [] c.pc = "copy" ->
         {[GoOn(c, "count") EXCEPT !.copies = @ + 1, !.copy_ok = TRUE], CopyFailed(c)}
    [] c.pc = "count" -> {GoOn(c, "commit"), Fails(c)}
    [] c.pc = "commit" -> {GoOn(c, "close"), Fails(c)}
    [] c.pc = "close" ->
         {[GoOn(c, "returned") EXCEPT !.ret.status = "success", !.ret.row_count = 7],
          Fails(c)}
    [] OTHER -> {}

\* the DataLoader once fn is called: threads are the calls in progress, queue
\* the tables not yet given to a thread, done the results in the order of
\* completion, main the position of the thread that called fn
Loader(fn, source_conn, validate_rows, queue, threads) ==
  [pc |-> fn, source_conn |-> source_conn, validate_rows |-> validate_rows,
   queue |-> queue, thread |-> threads, done |-> <<>>,
   stats |-> [loaded |-> 0, failed |-> 0, validated |-> 0, validation_failed |-> 0],
   main |-> [pc |-> "waiting", on |-> "none"]]

\* a direct call of load_table, in the thread of the caller
LoadTable ==
  /\ load.pc = "idle"
  /\ \E source_conn \in BOOLEAN, i \in 1..Len(LoadTables) :
       load' = Loader("load_table", source_conn, FALSE, <<>>, <<NewCall(LoadTables[i])>>)
  /\ UNCHANGED <<source, walkIn, target, SUMMARY, LOGGER, calls, callNo, pc, call, poll>>

\* load_tables_parallel(tables, max_workers): every table is submitted
LoadTablesParallel ==
  /\ load.pc = "idle"
  /\ \E source_conn \in BOOLEAN, validate_rows \in BOOLEAN, n \in 2..Len(LoadTables) :
       load' = Loader("load_tables_parallel", source_conn, validate_rows,
                      SubSeq(LoadTables, 1, n), [w \in 1..MaxWorkers |-> FreeThread])
  /\ UNCHANGED <<source, walkIn, target, SUMMARY, LOGGER, calls, callNo, pc, call, poll>>

\* pool thread w takes the next submitted call
TakeTask(w) ==
  /\ load.pc = "load_tables_parallel"
  /\ load.thread[w].pc \in {"free", "returned"}
  /\ load.queue # <<>>
  /\ load' = [load EXCEPT !.thread[w] = NewCall(Head(load.queue)),
                           !.queue = Tail(load.queue)]
  /\ UNCHANGED <<source, walkIn, target, SUMMARY, LOGGER, calls, callNo, pc, call, poll>>

\* the load_table call of thread w takes its next step; a call that returns
\* completes its future
LoadStep(w) ==
  /\ load.pc \in {"load_table", "load_tables_parallel"}
  /\ \E c \in CallSteps(load.thread[w], load.source_conn) :
       load' = [load EXCEPT !.thread[w] = c,
                            !.done = IF c.pc = "returned" THEN Append(@, c.ret) ELSE @]
  /\ UNCHANGED <<source, walkIn, target, SUMMARY, LOGGER, calls, callNo, pc, call, poll>>

\* the main thread takes the next completed result: a failure is counted; a
\* success is counted and, with validate_rows and a source connection,
\* validate_row_count starts its statement on self.source_conn
HandleResult ==
  /\ load.pc = "load_tables_parallel"
  /\ load.main.pc = "waiting"
  /\ load.done # <<>>
  /\ load' = IF Head(load.done).status # "success"
               THEN [load EXCEPT !.stats.failed = @ + 1, !.done = Tail(@)]
             ELSE IF load.validate_rows /\ load.source_conn
               THEN [load EXCEPT !.stats.loaded = @ + 1,
                                 !.main = [pc |-> "validating", on |-> SourceConnection]]
             ELSE [load EXCEPT !.stats.loaded = @ + 1, !.done = Tail(@)]
  /\ UNCHANGED <<source, walkIn, target, SUMMARY, LOGGER, calls, callNo, pc, call, poll>>

\* validate_row_count ends: validated, mismatch or error
RowsValidated ==
  /\ load.pc = "load_tables_parallel"
  /\ load.main.pc = "validating"
  /\ \E status \in {"validated", "mismatch", "error"} :
       load' = [load EXCEPT !.main = [pc |-> "waiting", on |-> "none"],
                            !.done = Tail(@),
                            !.stats.validated = IF status = "validated" THEN @ + 1 ELSE @,
                            !.stats.validation_failed =
                              IF status = "mismatch" THEN @ + 1 ELSE @]
  /\ UNCHANGED <<source, walkIn, target, SUMMARY, LOGGER, calls, callNo, pc, call, poll>>

\* every future has been handled: the executor is shut down and
\* load_tables_parallel returns
ParallelReturn ==
  /\ load.pc = "load_tables_parallel"
  /\ load.main.pc = "waiting"
  /\ load.queue = <<>> /\ load.done = <<>>
  /\ \A w \in DOMAIN load.thread : load.thread[w].pc \in {"free", "returned"}
  /\ load' = [load EXCEPT !.pc = "finished"]
  /\ UNCHANGED <<source, walkIn, target, SUMMARY, LOGGER, calls, callNo, pc, call, poll>>

NextLoad == LoadTable \/ LoadStep(1)

SpecLoad == Init /\ [][NextLoad]_vars

NextParallel ==
  \/ LoadTablesParallel
  \/ \E w \in 1..MaxWorkers : TakeTask(w) \/ LoadStep(w)
  \/ HandleResult
  \/ RowsValidated
  \/ ParallelReturn

SpecParallel == Init /\ [][NextParallel]_vars

-----------------------------------------------------------------------------
(* What the properties below are stated over *)

\* the types the dispatch chain of convert_activity_list has a branch for
HandlerTypes ==
  {"DatabricksNotebook", "SqlServerStoredProcedure", "ExecutePipeline", "Copy", "Lookup",
   "GetMetadata", "Delete", "Script", "SetVariable", "ForEach"} \cup HDInsightTypes

HasHandler(act) ==
  LET atype == Get(act, "type", JNull) IN IsStr(atype) /\ atype.v \in HandlerTypes

\* source_json["properties"]["activities"] of a document / of the returned document
ActsOf(doc) ==
  IF IsDict(doc) /\ IsDict(Get(doc, "properties", JNull))
    THEN Get(doc.v["properties"], "activities", JNull) ELSE JNull

\* the suffix the walker appends to the path for each directly nested list
ContainerSuffix ==
  [ifTrueActivities |-> ".ifTrueActivities", ifFalseActivities |-> ".ifFalseActivities",
   activities |-> ".activities", defaultActivities |-> ". defaultActivities"]

CaseSuffix(i) == ".cases[" \o ToString(i) \o "].activities"

\* the lists nested in an activity through the five containers
NestedLists(act) ==
  LET tp == IF IsDict(act) THEN Get(act, "typeProperties", JNull) ELSE JNull
      cases == IF IsDict(tp) THEN Get(tp, "cases", JNull) ELSE JNull
  IN IF ~IsDict(tp) THEN <<>>
     ELSE <<Get(tp, "ifTrueActivities", JNull), Get(tp, "ifFalseActivities", JNull),
            Get(tp, "activities", JNull), Get(tp, "defaultActivities", JNull)>>
            \o (IF IsList(cases)
                  THEN [j \in 1..Len(cases.v) |->
                          IF IsDict(cases.v[j]) THEN Get(cases.v[j], "activities", JNull)
                          ELSE JNull]
                  ELSE <<>>)

RECURSIVE SumSeq(_)
SumSeq(s) == IF Len(s) = 0 THEN 0 ELSE Head(s) + SumSeq(Tail(s))

RECURSIVE CountActivities(_)
\* number of activities of the tree rooted at an activity list
CountActivities(list) ==
  IF ~IsList(list) THEN 0
  ELSE SumSeq([i \in 1..Len(list.v) |->
                 1 + SumSeq([n \in 1..Len(NestedLists(list.v[i])) |->
                               CountActivities(NestedLists(list.v[i])[n])])])

-----------------------------------------------------------------------------
(* C1 *)

\* C1: in one process_pipeline call every activity of the source tree, the
\* children of a ForEach included, is converted exactly once: the number of
\* conversion records added during the call equals the number of activities
\* of the source tree.
C1_EveryActivityConvertedOnce ==
  (pc = "returned" /\ callNo = 1 /\ IsList(walkIn))
    => Len(SUMMARY.mappings) = CountActivities(walkIn)

-----------------------------------------------------------------------------
(* C2 *)

\* what a process_pipeline call on doc records when it has a collector of its own
OwnSummary(doc) == summary(process_pipeline(doc, NewSummaryCollector, <<>>).st.S)

\* C2: over two or more process_pipeline calls in one process, the summary
\* written at the end of call k holds only the records, histograms and paths
\* produced by call k and nothing recorded by the calls before it.
C2_SummaryHoldsOnlyThisCall ==
  (pc = "returned" /\ callNo >= 2)
    => LOGGER[Len(LOGGER)].payload = OwnSummary(source)

-----------------------------------------------------------------------------
(* C3 *)

\* the walked tree is one ForEach holding one IfCondition whose true branch
\* holds one Copy
ForEachIfCopy ==
  /\ IsList(walkIn) /\ Len(walkIn.v) = 1
  /\ Get(walkIn.v[1], "type", JNull) = Str("ForEach")
  /\ LET body == Get(TpOld(walkIn.v[1]), "activities", JNull)
     IN /\ IsList(body) /\ Len(body.v) = 1
        /\ Get(body.v[1], "type", JNull) = Str("IfCondition")
        /\ LET tp == TpOld(body.v[1])
               branch == Get(tp, "ifTrueActivities", JNull)
           IN /\ ~Has(tp, "ifFalseActivities")
              /\ IsList(branch) /\ Len(branch.v) = 1
              /\ Get(branch.v[1], "type", JNull) = Str("Copy")

\* the strings a path can be extended by when descending one activity
PathSteps ==
  {c \o "." \o n \o "(" \o t \o ")" :
     c \in {"", ".ForEach", ".ifTrueActivities", ".ifFalseActivities", ".activities",
            ". defaultActivities", ".defaultActivities"},
     n \in {"A", "B", "C"}, t \in {"ForEach", "IfCondition", "Copy"}}

\* q is p followed by a dot and more
DotExtends(q, p) == \E e \in PathSteps : Fmt(q) = Fmt(p) \o e

\* C3: converting ForEach[IfCondition[Copy]] produces exactly three conversion
\* records, one per activity, and the path of each record is a strict
\* dot-extension of the path of the record of its parent activity.
C3_ThreeNestedRecords ==
  (pc = "returned" /\ callNo = 1 /\ ForEachIfCopy)
    => LET m == SUMMARY.mappings
       IN /\ Len(m) = 3
          /\ \E f, i, c \in 1..Len(m) :
               /\ m[f].from = Str("ForEach") /\ m[i].from = Str("IfCondition")
               /\ m[c].from = Str("Copy")
               /\ DotExtends(m[i].path, m[f].path)
               /\ DotExtends(m[c].path, m[i].path)

-----------------------------------------------------------------------------
(* C4 *)

\* C4: within one conversion the path of every conversion record is the path
\* the walker built for the activity (parent path, container suffix, name and
\* type), and no two records carry the same path.
C4_RecordPathsUnique ==
  (pc = "returned" /\ callNo = 1)
    => LET m == SUMMARY.mappings
       IN /\ \A i \in 1..Len(m) :
               \E k \in 1..Len(LOGGER) :
                 LOGGER[k].kind = "PRE" /\ m[i].path = Str(LOGGER[k].path)
          /\ \A i, j \in 1..Len(m) : i # j => m[i].path # m[j].path

-----------------------------------------------------------------------------
(* C5 *)

\* the dependsOn value of a node, an absent dependsOn read as the empty list
DependsOnVal(act) == Val(DependsOnOf(act)).v

RECURSIVE SameDependsOn(_, _)
\* position by position through the five containers, each node of outList has
\* the dependsOn value of the node of inList it was converted from
SameDependsOn(inList, outList) ==
  IF ~IsList(inList) \/ ~IsList(outList) THEN TRUE
  ELSE /\ Len(outList.v) = Len(inList.v)
       /\ \A i \in 1..Len(inList.v) :
            LET a == inList.v[i]
                b == outList.v[i]
            IN /\ DependsOnVal(b) = DependsOnVal(a)
               /\ Len(NestedLists(b)) = Len(NestedLists(a))
                    => \A n \in 1..Len(NestedLists(a)) :
                         SameDependsOn(NestedLists(a)[n], NestedLists(b)[n])

\* every node a dispatch returned has the dependsOn value of the node the
\* dispatch was given, as the PRE / POST sections of the log show them
LoggedDependsOnKept ==
  \A o \in 1..Len(LOGGER) :
    LOGGER[o].kind = "POST"
      => \E i \in 1..(o - 1) :
           /\ LOGGER[i].kind = "PRE" /\ LOGGER[i].path = LOGGER[o].path
           /\ \A x \in (i + 1)..(o - 1) :
                ~(LOGGER[x].kind = "PRE" /\ LOGGER[x].path = LOGGER[o].path)
           /\ DependsOnVal(LOGGER[o].payload) = DependsOnVal(LOGGER[i].payload)

\* C5: for every activity converted by a handler or by the passthrough rule the
\* output's dependsOn equals the input's by value (same entries, same order)
\* and is a distinct list object: appending to a dependsOn list of the output
\* leaves the input as it was, and appending to one of the input leaves the
\* output as it was.
C5_DependsOnCopiedByValue ==
  /\ (pc = "returned" /\ callNo = 1 /\ IsList(walkIn))
       => /\ SameDependsOn(walkIn, ActsOf(target))
          /\ LoggedDependsOnKept
          /\ Ids(walkIn) \cap Ids(target) = {}
          /\ Ids(source) \cap Ids(target) = {}
  /\ pc = "mutated_out"
       => /\ Val(walkIn) = Val(ActsOf(source))
          /\ ~SameDependsOn(walkIn, ActsOf(target))
  /\ pc = "mutated_in"
       => /\ SameDependsOn(ActsOf(source), ActsOf(target))
          /\ ~SameDependsOn(walkIn, ActsOf(target))

\* a Lookup with a dependsOn entry was converted and the caller then appended
\* to the dependsOn list of the output node
C5_OutputMutatedAfterConversion ==
  /\ pc = "mutated_out"
  /\ Get(walkIn.v[1], "type", JNull) = Str("Lookup")
  /\ Len(DependsOnVal(walkIn.v[1])) = 1
  /\ Len(DependsOnVal(ActsOf(target).v[1])) = 2

-----------------------------------------------------------------------------
(* C6 *)

\* the policy the five defaults give for a source policy
PolicyWithDefaults(policy) ==
  Obj([timeout |-> Get(policy, "timeout", Str("0.12:00:00")),
       retry |-> Get(policy, "retry", Int_(0)),
       retryIntervalInSeconds |-> Get(policy, "retryIntervalInSeconds", Int_(30)),
       secureInput |-> Get(policy, "secureInput", Bool(FALSE)),
       secureOutput |-> Get(policy, "secureOutput", Bool(FALSE))])

\* C6: every activity emitted by a type-specific handler carries a policy with
\* all five fields, each field absent from the source policy at its default
\* (timeout "0.12:00:00", retry 0, retryIntervalInSeconds 30, secureInput and
\* secureOutput false) and each field present in the source at its source value.
C6_PolicyDefaultsInjected ==
  (pc = "returned" /\ callNo = 1 /\ IsList(walkIn))
    => \A i \in 1..Len(walkIn.v) :
         HasHandler(walkIn.v[i])
           => Get(ActsOf(target).v[i], "policy", JNull)
                = PolicyWithDefaults(Get(walkIn.v[i], "policy", EmptyObj))

-----------------------------------------------------------------------------
(* C7 *)

\* typeProperties without the nested activity lists, which the walker rewrites
WithoutContainers(tp) ==
  IF ~IsDict(tp) THEN tp
  ELSE Val([tp EXCEPT !.v = [x \in DOMAIN tp.v \ (ListContainers \cup {"cases"})
                               |-> tp.v[x]]])

\* C7: converting an activity whose type has no handler yields a node in which
\* every field of the source is preserved with an equal value, except type
\* (remapped through the activity-kind table, unchanged if unmapped) and
\* linkedServiceName (removed).
C7_PassthroughPreservesFields ==
  (pc = "returned" /\ callNo = 1 /\ IsList(walkIn))
    => \A i \in 1..Len(walkIn.v) :
         LET a == walkIn.v[i]
             b == ActsOf(target).v[i]
         IN ~HasHandler(a)
              => /\ DOMAIN b.v = DOMAIN a.v \ {"linkedServiceName"}
                 /\ \A f \in DOMAIN b.v \ {"type", "typeProperties"} :
                      Val(b.v[f]) = Val(a.v[f])
                 /\ Has(a, "typeProperties")
                      => WithoutContainers(b.v["typeProperties"])
                           = WithoutContainers(a.v["typeProperties"])
                 /\ Has(a, "type") => b.v["type"] = map_activity_type(a.v["type"])

-----------------------------------------------------------------------------
(* C8 *)

\* C8: the conversion of an activity whose type has no handler never raises:
\* whatever fields it has or lacks and whatever the shape of its
\* typeProperties, convert_activity_list completes and emits exactly one
\* output node for it.  Stated for lists of such activities that nest no
\* further activity.
C8_PassthroughNeverRaises ==
  (callNo = 1 /\ IsList(walkIn) /\ Height(walkIn) = 1
     /\ \A i \in 1..Len(walkIn.v) : IsDict(walkIn.v[i]) /\ ~HasHandler(walkIn.v[i]))
    => /\ pc # "raised"
       /\ IsList(ActsOf(target)) /\ Len(ActsOf(target).v) = Len(walkIn.v)

-----------------------------------------------------------------------------
(* C9 *)

\* convert_activity_list was invoked with this parent path
Called(parent_path) == \E k \in 1..Len(calls) : calls[k].parent_path = parent_path

\* the log holds a section of this kind at this path / with this node as payload
LoggedAt(kind, path) ==
  \E k \in 1..Len(LOGGER) : LOGGER[k].kind = kind /\ LOGGER[k].path = path
LoggedNode(kind, path, node) ==
  \E k \in 1..Len(LOGGER) :
    LOGGER[k].kind = kind /\ LOGGER[k].path = path /\ LOGGER[k].payload = Val(node)

\* the types an output node can have had when it was dispatched
TypesBefore(node) ==
  LET t == Fmt(Get(node, "type", JNull))
  IN {t} \cup {x \in DOMAIN ADF_TO_FABRIC_ACTIVITY_TYPE : ADF_TO_FABRIC_ACTIVITY_TYPE[x] = t}

RECURSIVE ListConverted(_, _, _)
\* outList is what convert_activity_list made of the list at inList when it
\* was invoked with parent_path: it was invoked with that path, every
\* activity of inList has its converted node at the same position, logged
\* under parent_path.name(type), and every nested list of a converted node is
\* in turn the conversion made with the node's path extended by the suffix of
\* its container
ListConverted(inList, outList, parent_path) ==
  /\ Called(parent_path)
  /\ IsList(outList)
  /\ Len(outList.v) = (IF IsList(inList) THEN Len(inList.v) ELSE 0)
  /\ \A i \in 1..Len(outList.v) :
       LET a == inList.v[i]
           b == outList.v[i]
           name == Fmt(Get(a, "name", Str("unnamed_" \o ToString(i - 1))))
           tpa == Get(a, "typeProperties", JNull)
           tpb == Get(b, "typeProperties", JNull)
           \* the list of the source the list under key was converted from
           under(d, key) == IF IsDict(d) THEN Get(d, key, List(<<>>)) ELSE List(<<>>)
       IN /\ Has(a, "name") => Get(b, "name", JNull) = a.v["name"]
          /\ \E t \in TypesBefore(b) :
               LET path == parent_path \o "." \o name \o "(" \o t \o ")"
               IN /\ LoggedAt("PRE", path)
                  /\ LoggedNode("POST", path, b)
                  /\ IsDict(tpb)
                       => /\ \A key \in ListContainers :
                               IsList(Get(tpb, key, JNull))
                                 => ListConverted(under(tpa, key), tpb.v[key],
                                                  path \o ContainerSuffix[key])
                          /\ IsList(Get(tpb, "cases", JNull))
                               => \A j \in 1..Len(tpb.v["cases"].v) :
                                    ListConverted(
                                      under(under(tpa, "cases").v[j], "activities"),
                                      Get(tpb.v["cases"].v[j], "activities", JNull),
                                      path \o CaseSuffix(j - 1))

\* the activities whose nested lists the conversion hands on: those without a
\* handler and ForEach
KeepsNestedLists(act) == ~HasHandler(act) \/ Get(act, "type", JNull) = Str("ForEach")

RECURSIVE NestedListsKept(_, _)
\* every list nested in such a source activity through the five containers
\* is a list of the same length in the same place of the converted activity
NestedListsKept(inList, outList) ==
  \A i \in 1..Len(inList.v) :
    KeepsNestedLists(inList.v[i])
      => /\ Len(NestedLists(outList.v[i])) = Len(NestedLists(inList.v[i]))
         /\ \A n \in 1..Len(NestedLists(inList.v[i])) :
              LET x == NestedLists(inList.v[i])[n]
                  y == NestedLists(outList.v[i])[n]
              IN IsList(x) => IsList(y) /\ Len(y.v) = Len(x.v) /\ NestedListsKept(x, y)

\* C9: for every converted node at any depth, each of the five nested lists
\* present in its typeProperties (ifTrueActivities, ifFalseActivities,
\* activities, the activities of each entry of cases, defaultActivities) is
\* replaced by the conversion of that list, made with the node's path extended
\* by the fixed suffix of the container (and the case index for cases), so
\* every activity reachable through these containers appears converted in the
\* output.
C9_NestedListsConverted ==
  (pc = "returned" /\ callNo = 1 /\ IsList(walkIn))
    => /\ ListConverted(walkIn, ActsOf(target), "root")
       /\ NestedListsKept(walkIn, ActsOf(target))

\* a Switch whose case holds an IfCondition with both branches and which has
\* a default list was converted: four of the five containers in one tree
C9_SwitchWithBranchesConverted ==
  /\ pc = "returned" /\ callNo = 1 /\ IsList(walkIn) /\ Len(walkIn.v) = 1
  /\ Called("root.A(Switch).cases[0].activities")
  /\ Called("root.A(Switch). defaultActivities")
  /\ Called("root.A(Switch).cases[0].activities.A(IfCondition).ifTrueActivities")
  /\ Called("root.A(Switch).cases[0].activities.A(IfCondition).ifFalseActivities")
  /\ Len(calls) = 5

-----------------------------------------------------------------------------
(* C10 *)

-----------------------------------------------------------------------------
(* map_connector_type *)

\* the entries of the connector table a name matches under each rule
ExactKeys(x) ==
  {i \in 1..Len(ADF_TO_FABRIC_CONNECTOR_TYPE) : ADF_TO_FABRIC_CONNECTOR_TYPE[i][1] = x}
IgnoringCaseKeys(x) ==
  {i \in 1..Len(ADF_TO_FABRIC_CONNECTOR_TYPE) :
     lower(ADF_TO_FABRIC_CONNECTOR_TYPE[i][1]) = lower(x)}
ContainmentKeys(x) ==
  {i \in 1..Len(ADF_TO_FABRIC_CONNECTOR_TYPE) :
     InStr(x, ADF_TO_FABRIC_CONNECTOR_TYPE[i][1])
       \/ InStr(ADF_TO_FABRIC_CONNECTOR_TYPE[i][1], x)}

\* the value of the first entry among the entries I
FirstValue(I) ==
  ADF_TO_FABRIC_CONNECTOR_TYPE[CHOOSE i \in I : \A j \in I : i <= j][2]

\* C11: map_connector_type returns for every name: the value of the key equal
\* to it; with no such key, the value of the key equal to it ignoring case;
\* with no such key either, the value of the first key that contains it or is
\* contained in it; and "Generic" when no rule matches or the name is empty
C11_ConnectorRulesInOrder ==
  call.fn = "map_connector_type" =>
    call.ret =
      IF ~IsStr(call.adf_type) \/ call.adf_type.v = "" THEN Str("Generic")
      ELSE IF ExactKeys(call.adf_type.v) # {}
        THEN Str(FirstValue(ExactKeys(call.adf_type.v)))
      ELSE IF IgnoringCaseKeys(call.adf_type.v) # {}
        THEN Str(FirstValue(IgnoringCaseKeys(call.adf_type.v)))
      ELSE IF ContainmentKeys(call.adf_type.v) # {}
        THEN Str(FirstValue(ContainmentKeys(call.adf_type.v)))
      ELSE Str("Generic")

\* a name that is no key, equals one key ignoring case and contains another
\* key with a different value: the case-insensitive rule decided
C11_CaseRuleBeatsContainment ==
  /\ call.fn = "map_connector_type"
  /\ IsStr(call.adf_type)
  /\ ExactKeys(call.adf_type.v) = {}
  /\ IgnoringCaseKeys(call.adf_type.v) # {}
  /\ ContainmentKeys(call.adf_type.v) # {}
  /\ FirstValue(ContainmentKeys(call.adf_type.v))
       # FirstValue(IgnoringCaseKeys(call.adf_type.v))
  /\ call.ret = Str(FirstValue(IgnoringCaseKeys(call.adf_type.v)))

-----------------------------------------------------------------------------
(* map_activity_type *)

\* C12: map_activity_type returns the mapped value for every key of the
\* activity table and "Unknown" for every type name that is not a key
C12_UnknownForUnmappedTypes ==
  call.fn = "map_activity_type" =>
    call.ret =
      IF IsStr(call.adf_type) /\ call.adf_type.v \in DOMAIN ADF_TO_FABRIC_ACTIVITY_TYPE
        THEN Str(ADF_TO_FABRIC_ACTIVITY_TYPE[call.adf_type.v])
        ELSE Str("Unknown")

-----------------------------------------------------------------------------
(* select_param_name *)

\* the candidate list of a role, and the parameters a pipeline declares
CandidatesOf(key) ==
  IF key \in DOMAIN CONFIG.param_candidates THEN CONFIG.param_candidates[key] ELSE <<>>
DeclaredIn(pipeline_props) ==
  IF IsDict(pipeline_props) /\ IsDict(Get(pipeline_props, "parameters", JNull))
    THEN DOMAIN pipeline_props.v["parameters"].v ELSE {}

\* the positions of the candidates of a role that a pipeline declares
DeclaredPositions(key, pipeline_props) ==
  {i \in 1..Len(CandidatesOf(key)) : CandidatesOf(key)[i] \in DeclaredIn(pipeline_props)}

\* C13: select_param_name returns the earliest candidate of the role that the
\* pipeline declares; the first candidate when none is declared (also without
\* parameters or properties); None ("") when the role has no candidates; and
\* destinationPath for sink_folder when only destinationPath is declared
C13_EarliestDeclaredCandidate ==
  call.fn = "select_param_name" =>
    /\ call.ret =
         IF Len(CandidatesOf(call.key)) = 0 THEN ""
         ELSE IF DeclaredPositions(call.key, call.pipeline_props) # {}
           THEN CandidatesOf(call.key)[
                  CHOOSE i \in DeclaredPositions(call.key, call.pipeline_props) :
                    \A j \in DeclaredPositions(call.key, call.pipeline_props) : i <= j]
         ELSE CandidatesOf(call.key)[1]
    /\ (call.key = "sink_folder" /\ DeclaredIn(call.pipeline_props) = {"destinationPath"})
         => call.ret = "destinationPath"

\* only the second candidate of sink_folder is declared, and it is returned
C13_SecondCandidateChosen ==
  /\ call.fn = "select_param_name"
  /\ call.key = "sink_folder"
  /\ DeclaredPositions(call.key, call.pipeline_props) = {2}
  /\ call.ret = "blob_path"

-----------------------------------------------------------------------------
(* get_flat_value, format_generic_value *)

IsScalar(j) == j.k \in {"str", "int", "bool"}

\* C14: get_flat_value always returns a scalar: the flattened inner value of
\* a wrapper with a "value" field, a string for any other dict and for a list,
\* the trimmed string for a string ("FIX_ME_INVALID_OBJECT" for
\* "[object Object]"), and the empty string for null
C14_FlatValueIsScalar ==
  call.fn = "get_flat_value" =>
    /\ IsScalar(call.ret)
    /\ (IsDict(call.val) /\ Has(call.val, "value"))
         => call.ret = get_flat_value(call.val.v["value"])
    /\ ((IsDict(call.val) /\ ~Has(call.val, "value")) \/ IsList(call.val))
         => IsStr(call.ret)
    /\ IsStr(call.val)
         => call.ret = IF strip(call.val.v) = "[object Object]"
                         THEN Str("FIX_ME_INVALID_OBJECT") ELSE Str(strip(call.val.v))
    /\ call.val = JNull => call.ret = Str("")

\* C15: format_generic_value returns {value: raw, type: T}, raw being the
\* flattened input and T "Expression" exactly when raw is a string starting
\* with "@" or "=", "String" otherwise
C15_ExpressionTagFollowsRawValue ==
  call.fn = "format_generic_value" =>
    /\ IsDict(call.ret) /\ DOMAIN call.ret.v = {"value", "type"}
    /\ call.ret.v["value"] = get_flat_value(call.val)
    /\ call.ret.v["type"] \in {Str("Expression"), Str("String")}
    /\ call.ret.v["type"] = Str("Expression")
         <=> /\ IsStr(call.ret.v["value"])
             /\ Len(call.ret.v["value"].v) > 0
             /\ SubSeq(call.ret.v["value"].v, 1, 1) \in {"@", "="}
    /\ call.val = Str("@pipeline().parameters.x") => call.ret.v["type"] = Str("Expression")
    /\ call.val = Str("plainstring") => call.ret.v["type"] = Str("String")

\* a value wrapper around a padded expression was tagged Expression, the
\* value emitted being the trimmed inner string
C15_WrappedExpressionTagged ==
  /\ call.fn = "format_generic_value"
  /\ IsDict(call.val)
  /\ call.ret.v["type"] = Str("Expression")
  /\ call.ret.v["value"] = Str("@item().name")

-----------------------------------------------------------------------------
(* C16 *)

\* the only activity of a one-activity document, JNull otherwise
OnlyActivity(doc) ==
  IF IsList(ActsOf(doc)) /\ Len(ActsOf(doc).v) = 1 THEN ActsOf(doc).v[1] ELSE JNull

IsOfType(act, type) == IsDict(act) /\ Get(act, "type", JNull) = Str(type)

\* typeProperties.storedProcedureParameters of an activity
SpParameters(act) ==
  Get(Get(act, "typeProperties", EmptyObj), "storedProcedureParameters", EmptyObj)

\* the parameter the contract prescribes for a flattened value
SpParameterFor(raw) ==
  IF IsStr(raw) /\ StartsExpression(raw.v)
    THEN Obj([value |-> Obj([value |-> raw, type |-> Str("Expression")]),
              type |-> Str("String")])
    ELSE Obj([value |-> raw, type |-> Str("String")])

\* C16: every parameter of a converted SqlServerStoredProcedure activity is
\* {value: {value: expr, type: "Expression"}, type: "String"} when the
\* flattened source value is an expression and {value: raw, type: "String"}
\* otherwise, for bare values and for (nested) value wrappers alike; the
\* output has exactly the source's parameters.
C16_StoredProcParametersDoubleNested ==
  (pc = "returned" /\ IsOfType(OnlyActivity(source), "SqlServerStoredProcedure"))
    => LET ins == SpParameters(OnlyActivity(source))
           outs == Val(SpParameters(OnlyActivity(target)))
       IN /\ IsOfType(OnlyActivity(target), "SqlServerStoredProcedure")
          /\ DOMAIN outs.v = DOMAIN ins.v
          /\ \A x \in DOMAIN ins.v :
                outs.v[x] = SpParameterFor(Val(get_flat_value(ins.v[x])))

\* a parameter given as a nested wrapper around a padded expression came out
\* double-nested
C16_NestedWrapperDoubleNested ==
  /\ pc = "returned"
  /\ IsOfType(OnlyActivity(source), "SqlServerStoredProcedure")
  /\ SpParameters(OnlyActivity(source)) =
       Obj([x |-> Obj([value |-> Obj([value |-> Str(" @item().name "),
                                      type |-> Str("Expression")]),
                       type |-> Str("String")])])
  /\ Val(SpParameters(OnlyActivity(target))) =
       Obj([x |-> Obj([value |-> Obj([value |-> Str("@item().name"),
                                      type |-> Str("Expression")]),
                       type |-> Str("String")])])

-----------------------------------------------------------------------------
(* C17 *)

TypePropertiesOf(act) == Get(act, "typeProperties", EmptyObj)

\* C17: in a converted Copy activity each of enableStaging,
\* enableSkipIncompatibleRow, validateDataConsistency, parallelCopies and
\* dataIntegrationUnits is a key of the output typeProperties if and only if
\* it is a key of the source typeProperties, and then holds the source's value.
C17_OptionalFlagsOnlyWhenPresent ==
  (pc = "returned" /\ IsOfType(OnlyActivity(source), "Copy"))
    => LET tp_in == TypePropertiesOf(OnlyActivity(source))
           tp_out == Val(TypePropertiesOf(OnlyActivity(target)))
       IN \A flag \in DOMAIN CopyFlagValues :
            /\ flag \in DOMAIN tp_out.v <=> flag \in DOMAIN tp_in.v
            /\ flag \in DOMAIN tp_in.v => tp_out.v[flag] = Val(tp_in.v[flag])

-----------------------------------------------------------------------------
(* C18 *)

\* a Copy activity from "DelimitedTextSource" to "BlobSink"
IsDelimitedTextToBlob(act) ==
  /\ IsOfType(act, "Copy")
  /\ Get(Get(TypePropertiesOf(act), "source", EmptyObj), "type", JNull)
       = Str("DelimitedTextSource")
  /\ Get(Get(TypePropertiesOf(act), "sink", EmptyObj), "type", JNull) = Str("BlobSink")

\* typeProperties.sink.datasetSettings of a converted Copy activity
SinkDatasetSettings(act) ==
  Val(Get(Get(TypePropertiesOf(act), "sink", EmptyObj), "datasetSettings", EmptyObj))

\* datasetSettings is the lakehouse delimited-text dataset for a folder parameter
IsLakehouseDataset(ds, folder_param) ==
  /\ Get(ds, "type", JNull) = Str("DelimitedText")
  /\ Get(ds, "connectionSettings", JNull) =
       Obj([name |-> Str(CONFIG.lakehouse_name),
            properties |->
              Obj([annotations |-> List(<<>>),
                   type |-> Str("Lakehouse"),
                   typeProperties |->
                     Obj([workspaceId |-> Str(CONFIG.workspace_id),
                          artifactId |-> Str(CONFIG.lakehouse_artifact_id),
                          rootFolder |-> Str("Files")]),
                   externalReferences |->
                     Obj([connection |-> Str(CONFIG.lakehouse_connection_id)])])])
  /\ Get(Get(ds, "typeProperties", EmptyObj), "location", JNull) =
       Obj([type |-> Str("LakehouseLocation"),
            folderPath |-> Obj([value |-> Str("@pipeline().parameters." \o folder_param),
                                type |-> Str("Expression")])])

\* C18: a Copy activity with source type "DelimitedTextSource" and sink type
\* "BlobSink" converts to an activity of type "Copy" whose source type is
\* still "DelimitedTextSource"; when the configured target mode is
\* "lakehouse" its sink datasetSettings is the lakehouse delimited-text
\* dataset (inline lakehouse connection block, LakehouseLocation with the
\* resolved folder parameter), and otherwise the external connection
\* reference of its sink datasetSettings is the configured blob connection id.
C18_SinkDatasetFollowsTargetMode ==
  (pc = "returned" /\ IsDelimitedTextToBlob(OnlyActivity(source)))
    => LET out == OnlyActivity(target)
           ds == SinkDatasetSettings(out)
           folder_param == ParamOr(Get(source, "properties", EmptyObj),
                                   "sink_folder", "destinationPath")
       IN /\ IsOfType(out, "Copy")
          /\ Get(Get(TypePropertiesOf(out), "source", EmptyObj), "type", JNull)
               = Str("DelimitedTextSource")
          /\ IF SUMMARY.sink_choice = Str("lakehouse")
               THEN IsLakehouseDataset(ds, folder_param)
               ELSE Get(Get(ds, "externalReferences", EmptyObj), "connection", JNull)
                      = Str(CONFIG.blob_connection_id)

-----------------------------------------------------------------------------
(* C19 *)

\* typeProperties.source of an activity, {} when absent or null
SourceOf(act) == OrEmptyDict(Get(TypePropertiesOf(act), "source", EmptyObj))

\* the query C19 prescribes for a Lookup source: the first present of
\* sqlReaderQuery, storedProcedureName (as "EXEC <name>"), query
PrescribedQuery(src) ==
  IF "sqlReaderQuery" \in DOMAIN src.v
    THEN Val(get_flat_value(src.v["sqlReaderQuery"]))
  ELSE IF "storedProcedureName" \in DOMAIN src.v
    THEN Str("EXEC " \o get_flat_value(src.v["storedProcedureName"]).v)
  ELSE IF "query" \in DOMAIN src.v THEN Val(get_flat_value(src.v["query"]))
  ELSE Str("")

\* C19: a converted Lookup carries exactly one query, its
\* source.sqlReaderQuery.value: the source's sqlReaderQuery when that field is
\* present, otherwise "EXEC <storedProcedureName>" when that one is present,
\* otherwise the source's query, otherwise the empty string; the output
\* source has no storedProcedureName and no query field.
C19_LookupQueryByPriority ==
  (pc = "returned" /\ IsOfType(OnlyActivity(source), "Lookup"))
    => LET src_out == Val(SourceOf(OnlyActivity(target)))
       IN /\ IsOfType(OnlyActivity(target), "Lookup")
          /\ DOMAIN src_out.v \cap DOMAIN LookupFieldValues = {"sqlReaderQuery"}
          /\ Get(src_out.v["sqlReaderQuery"], "value", JNull)
               = PrescribedQuery(SourceOf(OnlyActivity(source)))

\* a Lookup whose source has a stored procedure name and a query, and no
\* sqlReaderQuery, came out with the EXEC statement
C19_ProcedureBeatsQuery ==
  /\ pc = "returned"
  /\ IsOfType(OnlyActivity(source), "Lookup")
  /\ DOMAIN SourceOf(OnlyActivity(source)).v = {"type", "storedProcedureName", "query"}
  /\ Get(SourceOf(OnlyActivity(source)), "storedProcedureName", JNull)
       = Obj([value |-> Str(" dbo.load ")])
  /\ Get(Val(SourceOf(OnlyActivity(target))).v["sqlReaderQuery"], "value", JNull)
       = Str("EXEC dbo.load")

-----------------------------------------------------------------------------
(* C20 *)

\* the sub-kind the type tag of each HDInsight activity type names
HDInsightSubKind ==
  [HDInsightHive |-> "Hive", HDInsightPig |-> "Pig", HDInsightMapReduce |-> "MapReduce",
   HDInsightSpark |-> "Spark", HDInsightStreaming |-> "Streaming"]

\* C20: for each of the five HDInsight activity types and every content of the
\* source typeProperties, the converted node has type "AzureHDInsight", its
\* typeProperties.hdiActivityType is the source type tag without the
\* "HDInsight" prefix, and every other key of the source typeProperties is in
\* the output typeProperties with an equal value.
C20_HDInsightConsolidated ==
  (pc = "returned" /\ IsDict(OnlyActivity(source))
     /\ \E type \in DOMAIN HDInsightSubKind : IsOfType(OnlyActivity(source), type))
    => LET tp_in == OrEmptyDict(TypePropertiesOf(OnlyActivity(source)))
           tp_out == Val(TypePropertiesOf(OnlyActivity(target)))
           type == Get(OnlyActivity(source), "type", JNull)
       IN /\ IsOfType(OnlyActivity(target), "AzureHDInsight")
          /\ Get(tp_out, "hdiActivityType", JNull) = Str(HDInsightSubKind[type.v])
          /\ \A x \in DOMAIN tp_in.v \ {"hdiActivityType"} :
                x \in DOMAIN tp_out.v /\ tp_out.v[x] = Val(tp_in.v[x])

-----------------------------------------------------------------------------
(* C21 *)

\* source_json has no properties, or properties null
PropertiesMissing(doc) == Get(doc, "properties", JNull) = JNull

\* source_json has a properties bag whose activities is absent, empty or not a list
ActivitiesMissing(doc) ==
  /\ IsDict(Get(doc, "properties", JNull))
  /\ \/ ~IsList(ActsOf(doc))
     \/ Len(ActsOf(doc).v) = 0

\* C21: process_pipeline never fails on structurally incomplete input: when
\* the activities sequence is absent, empty or not a list the output's
\* activities sequence is empty, and when the properties bag is missing or
\* null the call still returns a document with a name, an objectId and
\* properties (whose activities sequence is empty).
C21_IncompleteInputNeverFails ==
  (callNo = 1 /\ IsDict(source)
     /\ (PropertiesMissing(source) \/ ActivitiesMissing(source)))
    => /\ pc = "returned"
       /\ {"name", "objectId", "properties"} \subseteq DOMAIN target.v
       /\ Val(ActsOf(target)) = List(<<>>)

-----------------------------------------------------------------------------
(* C22 *)

\* properties.variables of a document, {} when there is none
VariablesOf(doc) ==
  OrEmptyDict(Get(OrEmptyDict(Get(doc, "properties", EmptyObj)), "variables", EmptyObj))

DefaultOf(doc, x) == Get(VariablesOf(doc).v[x], "defaultValue", JNull)

\* a string with every "::" collapsed to ":", scanning from the left
RECURSIVE Collapsed(_)
Collapsed(s) ==
  IF Len(s) < 2 THEN s
  ELSE IF SubSeq(s, 1, 2) = "::" THEN ":" \o Collapsed(SubSeq(s, 3, Len(s)))
  ELSE SubSeq(s, 1, 1) \o Collapsed(SubSeq(s, 2, Len(s)))

\* C22: for every declared variable whose default value is a string holding
\* "::", the output carries that default with each "::" collapsed to ":";
\* every other default is unchanged.
C22_DoubleColonCollapsed ==
  (pc = "returned" /\ IsDict(VariablesOf(source))
     /\ \A x \in DOMAIN VariablesOf(source).v : IsDict(VariablesOf(source).v[x]))
    => /\ DOMAIN VariablesOf(target).v = DOMAIN VariablesOf(source).v
       /\ \A x \in DOMAIN VariablesOf(source).v :
            Val(DefaultOf(target, x)) =
              IF IsStr(DefaultOf(source, x))
                THEN Str(Collapsed(DefaultOf(source, x).v))
                ELSE Val(DefaultOf(source, x))

-----------------------------------------------------------------------------
(* C23 *)

\* typeProperties.activities of an activity
BodyOf(act) == Get(OrEmptyDict(TypePropertiesOf(act)), "activities", JNull)

\* doc with act as the only activity of its top-level list, the rest of the
\* properties (the pipeline parameters among them) as in doc
WithOnly(doc, act) ==
  Put(doc, "properties", Put(Get(doc, "properties", EmptyObj), "activities", List(<<act>>)))

\* the node a fresh process emits for act converted as a top-level activity
TopLevelNode(doc, act) ==
  Val(OnlyActivity(process_pipeline(WithOnly(doc, act), NewSummaryCollector, <<>>).ret))

\* C23: for every activity of a handled type that is a child of a top-level
\* ForEach body, the node emitted for it equals the node emitted when the same
\* activity is converted as a top-level activity with the same pipeline
\* parameters.
C23_NestingIndependent ==
  (pc = "returned" /\ callNo = 1 /\ IsList(ActsOf(source)))
    => \A i \in 1..Len(ActsOf(source).v) :
         (/\ IsOfType(ActsOf(source).v[i], "ForEach")
          /\ IsList(BodyOf(ActsOf(source).v[i])))
           => \A j \in 1..Len(BodyOf(ActsOf(source).v[i]).v) :
                HasHandler(BodyOf(ActsOf(source).v[i]).v[j])
                  => Val(BodyOf(ActsOf(target).v[i]).v[j])
                       = TopLevelNode(source, BodyOf(ActsOf(source).v[i]).v[j])

-----------------------------------------------------------------------------
(* C24 *)

\* record rec is the record of the conversion logged at LOGGER[a] (the
\* source activity) and LOGGER[b] (the emitted node): handlers record under
\* the activity's name, the passthrough rule under the path
RecordOf(rec, a, b) ==
  /\ a < b
  /\ LOGGER[a].kind = "PRE" /\ LOGGER[b].kind = "POST"
  /\ LOGGER[a].path = LOGGER[b].path
  /\ \/ rec.path = Str(LOGGER[a].path)
     \/ rec.path = Get(LOGGER[a].payload, "name", JNull)

\* C24: for every conversion record written during a walk there is a
\* converted activity it belongs to such that the record's source type is the
\* type field of the source activity and its target type is the type field of
\* the node emitted for it, for handler and passthrough conversions alike.
C24_RecordTypesMatchNodes ==
  (pc = "returned" /\ callNo = 1)
    => \A i \in 1..Len(SUMMARY.mappings) :
         \E a, b \in 1..Len(LOGGER) :
           /\ RecordOf(SUMMARY.mappings[i], a, b)
           /\ SUMMARY.mappings[i].from = Get(LOGGER[a].payload, "type", JNull)
           /\ SUMMARY.mappings[i].to = Get(LOGGER[b].payload, "type", JNull)

-----------------------------------------------------------------------------
(* C25 *)

\* the names of the activities of a list / the names a node depends on
NamesOf(list) == {Get(list.v[i], "name", JNull) : i \in 1..Len(list.v)} \ {JNull}
DependsOnNames(act) ==
  {Get(DependsOnVal(act)[d], "activity", JNull) : d \in 1..Len(DependsOnVal(act))}

RECURSIVE SameSiblings(_, _)
\* outList holds, position by position, a node for every activity of inList
\* with the activity's name, and the same holds for every nested list; a
\* dependsOn name that refers to a sibling of inList is a dependsOn name of
\* the node and refers to a sibling of outList
SameSiblings(inList, outList) ==
  /\ IsList(outList)
  /\ Len(outList.v) = Len(inList.v)
  /\ \A i \in 1..Len(inList.v) :
       /\ IsDict(outList.v[i])
       /\ Has(inList.v[i], "name")
            => Get(outList.v[i], "name", JNull) = inList.v[i].v["name"]
       /\ \A d \in DependsOnNames(inList.v[i]) \cap NamesOf(inList) :
            d \in DependsOnNames(outList.v[i]) \cap NamesOf(outList)
       /\ \A n \in 1..Len(NestedLists(inList.v[i])) :
            IsList(NestedLists(inList.v[i])[n])
              => /\ n <= Len(NestedLists(outList.v[i]))
                 /\ SameSiblings(NestedLists(inList.v[i])[n],
                                 NestedLists(outList.v[i])[n])

\* C25: at every level of the tree the converted list has the length of the
\* source list and its i-th node is the conversion of the i-th source
\* activity, with the same name: no sibling is dropped, duplicated or
\* reordered, and every dependsOn name that refers to a sibling still refers
\* to a sibling in the output list.
C25_SiblingsKeptInOrder ==
  (pc = "returned" /\ callNo = 1 /\ IsList(walkIn))
    => SameSiblings(walkIn, ActsOf(target))

\* three siblings in a ForEach body came out in order, C depending on A and B
C25_ForEachBodyOfThreeConverted ==
  /\ pc = "returned"
  /\ IsList(ActsOf(source)) /\ Len(ActsOf(source).v) = 2
  /\ IsOfType(ActsOf(source).v[1], "ForEach")
  /\ Len(BodyOf(ActsOf(source).v[1]).v) = 3
  /\ Get(BodyOf(ActsOf(source).v[1]).v[2], "type", JNull) = Str("Delete")
  /\ [i \in 1..3 |-> Get(BodyOf(ActsOf(target).v[1]).v[i], "name", JNull)]
       = <<Str("A"), Str("B"), Str("C")>>
  /\ DependsOnNames(BodyOf(ActsOf(target).v[1]).v[3]) = {Str("A"), Str("B")}

-----------------------------------------------------------------------------
(* C26 *)

\* C26: process_pipeline and convert_activity_list leave their input
\* unchanged: once the call has returned or raised, the source document (with
\* every nested activity list, typeProperties bag and variable default) and
\* the activities list handed to the walker are what they were when the call
\* was made; all rewriting happens on copies
C26_InputLeftUnchanged ==
  (pc \in {"returned", "raised"} /\ call.fn = "process_pipeline") =>
    /\ source = call.source_json
    /\ walkIn = call.activities

\* a document of tracked objects was converted: a variable default was
\* rewritten and a linked service removed in the returned tree, not in the source
C26_TrackedDocumentRewritten ==
  /\ pc = "returned"
  /\ <<9, 1>> \in Ids(source)
  /\ Val(DefaultOf(source, "t")) = Str("a: :b::c")
  /\ Val(DefaultOf(target, "t")) = Str("a: :b:c")
  /\ Has(source.v["properties"].v["activities"].v[1], "linkedServiceName")
  /\ ~Has(target.v["properties"].v["activities"].v[1], "linkedServiceName")

-----------------------------------------------------------------------------
(* C27 *)

\* C27: poll_pipeline_status always returns: for every max_wait_secs, every
\* first_delay > 0 and every backoff > 0, and whatever the polls find, the
\* accumulated wait comes to exceed max_wait_secs and the loop is left after
\* finitely many polls
C27_PollAlwaysReturns == (poll.pc = "polling") ~> (poll.pc = "returned")

-----------------------------------------------------------------------------
(* C28 *)

\* C28: when poll_pipeline_status stops because the wait budget is exhausted
\* and no poll found SUCCEEDED, FAILED or CANCELLED, the details report the
\* status "TIMEOUT": the status of the last poll, not a terminal one, is never
\* returned as the final status
C28_TimeoutReported ==
  (poll.pc \in {"returned", "reported"} /\ StatusOf(poll.last) \notin TerminalStatuses) =>
    /\ poll.details.v["status"] = Str("TIMEOUT")
    /\ poll.pc = "reported" => poll.status = "TIMEOUT"

-----------------------------------------------------------------------------
(* C29 *)

\* what C29 says of a load_table call c as it stands
AttemptsAsStated(c) ==
  /\ c.copies <= 3
  /\ Len(c.slept) <= 2
  /\ c.slept = SubSeq(<<1, 2>>, 1, Len(c.slept))
  /\ c.copy_ok => c.copies = Len(c.slept) + 1
  /\ c.pc # "returned" => (c.ret.status = "none" /\ CallSteps(c, load.source_conn) # {})
  /\ c.pc = "returned" =>
       /\ c.ret.status \in {"success", "failed"}
       /\ c.ret.status = "success" => (c.copy_ok /\ c.ret.error = "")
       /\ c.ret.status = "failed" => c.ret.error # ""
       /\ ~c.copy_ok /\ c.copies = 3 =>
            (c.ret.status = "failed" /\ c.ret.error = "error in copy")
       /\ ~c.copy_ok /\ c.copies > 0 => c.copies = 3

\* C29: load_table issues COPY INTO at most three times per call, sleeps 1 s
\* after the first failure and 2 s after the second, issues it no more once it
\* has succeeded, and never raises: it returns 'success' only when an attempt
\* succeeded, and 'failed' with the error text when the third attempt or any
\* other step failed
C29_ThreeAttemptsThenFailed ==
  /\ [](load.pc = "load_table" => AttemptsAsStated(load.thread[1]))
  /\ [][(load.pc = "load_table" /\ load.thread[1].copy_ok) =>
          load'.thread[1].copies = load.thread[1].copies]_vars

\* a call succeeded at its third attempt, after sleeps of 1 s and 2 s
C29_ThirdAttemptSucceeded ==
  /\ load.pc = "load_table"
  /\ load.thread[1].pc = "returned"
  /\ load.thread[1].ret.status = "success"
  /\ load.thread[1].copies = 3
  /\ load.thread[1].slept = <<1, 2>>

-----------------------------------------------------------------------------
(* C30 *)

\* C30: during load_tables_parallel with max_workers > 1 no connection is
\* used by two worker threads at the same time: every statement of a
\* load_table call runs on the connection this call opened
C30_OwnConnectionOnly ==
  load.pc = "load_tables_parallel" =>
    /\ \A w \in DOMAIN load.thread :
         load.thread[w].on \in {"none", OwnConnection(load.thread[w].table)}
    /\ \A w1, w2 \in DOMAIN load.thread :
         (w1 # w2 /\ load.thread[w1].on # "none") =>
           load.thread[w1].on # load.thread[w2].on

====
